---- MODULE Spec2Model ----
(***************************************************************************)
(* Model of the generic in-memory cache of api21 (src/src/cache):          *)
(* MemoryCache (index + recency list + TTL + metrics), its background      *)
(* sweeper and its reader/writer lock.                                     *)
(***************************************************************************)
EXTENDS Integers, Sequences, FiniteSets, TLC

\* ---------------------------------------------------------------- bounds
NumKeys == 3
NumVals == 2
MaxTime == 2
MaxTTL == 1
MaxOps == 4
Capacity == 2
NumWriters == 2
NumReaders == 1
NumCallers == 2
MaxSteps == 1
MaxReads == 2
NumNames == 2
MaxManagerOps == 4
NumIds == 2
NumTitles == 2
MaxServiceOps == 4
MaxRegistryOps == 5
MaxConfigOps == 3
MaxRaceOps == 4
MaxShutdownOps == 3

\* ------------------------------------------------------- program constants
SampleSize == 16
MapEntryOverhead == 64
ListElemOverhead == 48

Keys == 1..NumKeys
Values == 1..NumVals
NumThreads == NumWriters + NumReaders
Threads == 1..NumThreads
Writers == 1..NumWriters
Readers == Threads \ Writers
Callers == 1..NumCallers
SweeperId == 0
TTLs == 0..MaxTTL
Nil == 0
NoKey == 0
Zero == 0
ZeroTime == -1
NoThread == -1
Names == 1..NumNames
ValueTypes == {"string", "int", "any"}
NoCache == 0
NoID == 0
NoTitle == 0
All == 0

VARIABLES
    data,        \* mc.data: key -> element handle (Nil when not indexed)
    lruList,     \* mc.lruList: sequence of elements [id, key, entry], front first
    config,      \* mc.config
    metrics,     \* mc.metrics
    now,         \* the clock read by time.Now()
    ret,         \* what the last completed operation returned
    touchOrder,  \* history: keys ordered by their latest touch, latest first
    stored,      \* history: per key, the last Set(k, v, d): its time s, the default
                 \* TTL dflt it saw, and live, whether no Delete, Clear or
                 \* capacity eviction removed the key since
    capInserts,  \* history: inserts of a new key into a full cache since reset
    expRemovals, \* history: expired entries removed by Get or sweep since reset
    getHits,     \* history: Get calls that found their key since the last Clear
    getMisses,   \* history: Get calls that found nothing since the last Clear
    nops,        \* number of operations performed so far
    mu,          \* mc.mu: [w |-> exclusive holder, r |-> set of shared holders]
    pc,          \* per caller thread: position inside its current call
    call,        \* per caller thread: the call it is executing
    done,        \* per caller thread: number of calls completed
    stopCleanup, \* mc.stopCleanup has been closed
    cleanupDone, \* mc.cleanupDone has been closed
    sweeper,     \* position of the startCleanup goroutine
    tick,        \* a tick is pending in ticker.C
    closer,      \* position of the caller of Close
    local,       \* per thread: the cache state it read when it took the lock
    sweptAfterClose, \* history: a cleanupExpired pass started after Close returned
    caches,      \* Manager.caches: name -> the engine stored (NoCache when none)
    configs,     \* Manager.configs: name -> <<config>> (NoConfig when none)
    closed,      \* Manager.closed
    managerMu,   \* Manager.mu: [w |-> exclusive holder, r |-> shared holders]
    engines,     \* every MemoryCache constructed so far, in order of construction
    mpc,         \* per thread: position inside its current Manager call
    mcall,       \* per thread: the Manager call it is executing
    mlocal,      \* per thread: the Manager fields it read when it took the lock
    handle,      \* per thread: the cache handle it obtained last
    mret,        \* what the last completed Manager or no-op cache call returned
    requested,   \* history: per name, the value types asked for while open
    returned,    \* history: per name, the engines handed out while open
    env,         \* the process environment ConfigFromEnv reads
    preset,      \* history: per name, the config registered before its first creation
    db,          \* the clipboards table: id -> the row stored (NoRow when none)
    entries,     \* what the cache of the CachedClipboardService holds, per key
    wret,        \* what the last completed call on the service or a handler returned
    twin,        \* a second engine, built as the first but for EnableMetrics
    inflight     \* the read of the service that is between its fetch and its Set

cacheVars == <<data, lruList, config, metrics>>
histVars == <<touchOrder, stored, capInserts, expRemovals, getHits, getMisses>>
managerVars == <<caches, configs, closed, managerMu, engines, mpc, mcall, mlocal,
                 handle, mret, requested, returned, preset>>
auxVars == <<twin, inflight>>
serviceVars == <<env, db, entries, wret, auxVars>>
lockVars == <<mu, pc, call, done, stopCleanup, cleanupDone, sweeper, tick, closer,
              local, sweptAfterClose>>
concVars == <<mu, pc, call, done, stopCleanup, cleanupDone, sweeper, tick, closer,
              local, sweptAfterClose, managerVars, serviceVars>>
vars == <<data, lruList, config, metrics, now, ret, touchOrder, stored,
          capInserts, expRemovals, getHits, getMisses, nops, mu, pc, call, done,
          stopCleanup,
          cleanupDone, sweeper, tick, closer, local, sweptAfterClose,
          caches, configs, closed, managerMu, engines, mpc, mcall, mlocal,
          handle, mret, requested, returned, env, preset, db, entries, wret,
          twin, inflight>>

\* ------------------------------------------------------------ small helpers
Min(a, b) == IF a < b THEN a ELSE b

RECURSIVE FilterOut(_, _)
FilterOut(s, id) ==
    IF s = <<>> THEN <<>>
    ELSE IF Head(s).id = id THEN FilterOut(Tail(s), id)
         ELSE <<Head(s)>> \o FilterOut(Tail(s), id)

ListIds(l) == { l[i].id : i \in 1..Len(l) }
IndexedKeys(d) == { k \in Keys : d[k] # Nil }

NoEntry == [Value |-> 0, ExpiresAt |-> -1, CreatedAt |-> -1, AccessAt |-> -1,
            AccessCount |-> 0]

NoElement == [id |-> 0, key |-> 0, entry |-> NoEntry]

\* the element of the list that handle e points to
ElementAt(l, e) ==
    IF \E i \in 1..Len(l) : l[i].id = e
    THEN l[CHOOSE i \in 1..Len(l) : l[i].id = e]
    ELSE NoElement

\* ------------------------------------------------------------------ Metrics
ZeroRate == [num |-> 0, den |-> 1]

NewMetrics(t) ==
    [Hits |-> 0, Misses |-> 0, Sets |-> 0, Deletes |-> 0, Evictions |-> 0,
     Size |-> 0, HitRate |-> ZeroRate, LastReset |-> t, MemoryUsage |-> 0]

\* -------------------------------------------------------------- CacheEntry
\* mutant: the comparison of IsExpired reversed
IsExpiredReversed(e, t) == e.ExpiresAt # ZeroTime /\ t < e.ExpiresAt

IsExpired(e, t) == e.ExpiresAt # ZeroTime /\ t > e.ExpiresAt

\* mutant: Touch that forgets the access count
TouchNoCount(e, t) == [e EXCEPT !.AccessAt = t]

Touch(e, t) == [e EXCEPT !.AccessAt = t, !.AccessCount = @ + 1]

\* ------------------------------------------------------- container/list ops
PushFront(l, el) == <<el>> \o l

ListRemove(l, e) == FilterOut(l, e)

MoveToFront(l, e) ==
    IF e \in ListIds(l) THEN <<ElementAt(l, e)>> \o FilterOut(l, e) ELSE l

\* mutant: the element evictLRU picks is the front of the list
BackIsFront(l) == l[1].id

Back(l) == l[Len(l)].id

\* a fresh element handle: the least one not carried by a list node
NewElement(l) == CHOOSE i \in 1..(Len(l) + 1) :
                    /\ i \notin ListIds(l)
                    /\ \A j \in 1..(i - 1) : j \in ListIds(l)

\* ------------------------------------------------ cache state transformers
\* st is [data, lruList, metrics]; cfg is the config record.

\* mutant: removeElementUnsafe that forgets delete(mc.data, item.key)
removeFromListOnly(st, e) == [st EXCEPT !.lruList = ListRemove(@, e)]

removeElementUnsafe(st, e) ==
    LET item == ElementAt(st.lruList, e)
    IN [st EXCEPT !.data = [k \in Keys |-> IF k = item.key THEN Nil ELSE @[k]],
                  !.lruList = ListRemove(@, e)]

\* mutant: evictLRU that forgets to count the eviction
evictLRUUncounted(st, cfg) ==
    IF Len(st.lruList) = 0 THEN st
    ELSE removeElementUnsafe(st, Back(st.lruList))

\* mutant: an evictLRU that removes nothing when metrics are disabled
evictLRUWhenCounting(st, cfg) ==
    IF Len(st.lruList) = 0 \/ ~cfg.EnableMetrics THEN st
    ELSE [removeElementUnsafe(st, Back(st.lruList)) EXCEPT !.metrics.Evictions = @ + 1]

evictLRU(st, cfg) ==
    IF Len(st.lruList) = 0 THEN st
    ELSE LET st1 == removeElementUnsafe(st, Back(st.lruList))
         IN IF cfg.EnableMetrics
            THEN [st1 EXCEPT !.metrics.Evictions = @ + 1]
            ELSE st1

\* mutant: the rate of misses instead of the rate of hits
updateMissRate(m) ==
    LET total == m.Hits + m.Misses
    IN IF total > 0 THEN [m EXCEPT !.HitRate = [num |-> m.Misses, den |-> total]]
       ELSE m

updateHitRate(m) ==
    LET total == m.Hits + m.Misses
    IN IF total > 0 THEN [m EXCEPT !.HitRate = [num |-> m.Hits, den |-> total]]
       ELSE m

estimateMemoryUsage(st) ==
    LET n == Cardinality(IndexedKeys(st.data))
    IN IF n = 0 THEN 0
       ELSE n * MapEntryOverhead + Len(st.lruList) * ListElemOverhead + n * SampleSize

CacheState == [data |-> data, lruList |-> lruList, metrics |-> metrics]

\* Get, key not indexed (lines 144-149)
GetAbsent(st, cfg) ==
    [st |-> IF cfg.EnableMetrics THEN [st EXCEPT !.metrics.Misses = @ + 1] ELSE st,
     value |-> Zero, found |-> FALSE, expired |-> FALSE]

\* mutant: an expired entry is reported absent but left in place
GetExpiredKeepsEntry(st, cfg, element) ==
    [st |-> IF cfg.EnableMetrics
            THEN [st EXCEPT !.metrics.Misses = @ + 1, !.metrics.Evictions = @ + 1]
            ELSE st,
     value |-> Zero, found |-> FALSE, expired |-> TRUE]

\* Get, entry found expired (lines 154-161)
GetExpired(st, cfg, element) ==
    LET st1 == removeElementUnsafe(st, element)
    IN [st |-> IF cfg.EnableMetrics
               THEN [st1 EXCEPT !.metrics.Misses = @ + 1,
                                !.metrics.Evictions = @ + 1]
               ELSE st1,
        value |-> Zero, found |-> FALSE, expired |-> TRUE]

\* mutant: a Get hit that touches the entry but leaves it where it is
TouchWithoutPromote(l, element, t) ==
    [i \in 1..Len(l) |->
       IF l[i].id = element THEN [l[i] EXCEPT !.entry = Touch(@, t)] ELSE l[i]]

\* item.entry.Touch(); mc.lruList.MoveToFront(element) (lines 164-165)
TouchAndPromote(l, element, t) ==
    MoveToFront([i \in 1..Len(l) |->
                   IF l[i].id = element THEN [l[i] EXCEPT !.entry = Touch(@, t)]
                   ELSE l[i]],
                element)

\* Get, entry found and not expired (lines 163-172)
GetHit(st, cfg, element, t) ==
    LET item == ElementAt(st.lruList, element)
        st1 == [st EXCEPT !.lruList = TouchAndPromote(@, element, t)]
    IN [st |-> IF cfg.EnableMetrics
               THEN [st1 EXCEPT !.metrics = updateHitRate([@ EXCEPT !.Hits = @ + 1])]
               ELSE st1,
        value |-> item.entry.Value, found |-> TRUE, expired |-> FALSE]

\* result of Get(key) at time t: [st, value, found, expired]
GetResult(st, cfg, key, t) ==
    IF st.data[key] = Nil THEN GetAbsent(st, cfg)
    ELSE IF IsExpired(ElementAt(st.lruList, st.data[key]).entry, t)
         THEN GetExpired(st, cfg, st.data[key])
         ELSE GetHit(st, cfg, st.data[key], t)

\* mutant: a Set with ttl = 0 that does not look at the default TTL
NewEntryIgnoresDefault(cfg, value, ttl, t) ==
    [Value |-> value,
     ExpiresAt |-> IF ttl > 0 THEN t + ttl ELSE ZeroTime,
     CreatedAt |-> t, AccessAt |-> t, AccessCount |-> 1]

\* mutant: an entry without a positive ttl expires after MaxTTL
NewEntryAlwaysExpires(cfg, value, ttl, t) ==
    LET ttl1 == IF ttl = 0 THEN cfg.DefaultTTL ELSE ttl
    IN [Value |-> value,
        ExpiresAt |-> IF ttl1 > 0 THEN t + ttl1 ELSE t + MaxTTL,
        CreatedAt |-> t, AccessAt |-> t, AccessCount |-> 1]

\* the entry Set builds (lines 180-196)
NewEntry(cfg, value, ttl, t) ==
    LET ttl1 == IF ttl = 0 THEN cfg.DefaultTTL ELSE ttl
    IN [Value |-> value,
        ExpiresAt |-> IF ttl1 > 0 THEN t + ttl1 ELSE ZeroTime,
        CreatedAt |-> t, AccessAt |-> t, AccessCount |-> 1]

\* mutant: the eviction test off by one
NeedsEvictionOffByOne(l, cfg) == cfg.MaxSize > 0 /\ Len(l) > cfg.MaxSize + 1

\* Set's test for eviction after the insert (line 211)
NeedsEviction(l, cfg) == cfg.MaxSize > 0 /\ Len(l) > cfg.MaxSize

\* mutant: an update that keeps the CreatedAt of the entry it replaces
SetExistingKeepsCreatedAt(st, element, entry) ==
    LET l == st.lruList
        kept(old) == [entry EXCEPT !.CreatedAt = old.CreatedAt]
    IN [st EXCEPT !.lruList =
          MoveToFront([i \in 1..Len(l) |->
                         IF l[i].id = element
                         THEN [id |-> l[i].id, key |-> l[i].key,
                               entry |-> kept(l[i].entry)]
                         ELSE l[i]],
                      element)]

\* Set, key already indexed (lines 199-203)
SetExisting(st, element, entry) ==
    [st EXCEPT !.lruList =
        MoveToFront([i \in 1..Len(@) |->
                       IF @[i].id = element THEN [@[i] EXCEPT !.entry = entry]
                       ELSE @[i]],
                    element)]

\* Set, new key (lines 204-214)
SetNew(st, cfg, key, entry) ==
    LET element == NewElement(st.lruList)
        item == [id |-> element, key |-> key, entry |-> entry]
        st0 == [st EXCEPT !.lruList = PushFront(@, item),
                          !.data = [@ EXCEPT ![key] = element]]
    IN IF NeedsEviction(st0.lruList, cfg) THEN evictLRU(st0, cfg) ELSE st0

\* mutant: a Set that counts inserts only, not updates
SetCountsInsertsOnly(st, cfg, key, value, ttl, t) ==
    LET entry == NewEntry(cfg, value, ttl, t)
        st1 == IF st.data[key] # Nil
               THEN SetExisting(st, st.data[key], entry)
               ELSE SetNew(st, cfg, key, entry)
    IN IF cfg.EnableMetrics /\ st.data[key] = Nil
       THEN [st1 EXCEPT !.metrics.Sets = @ + 1] ELSE st1

\* result of Set(key, value, ttl) at time t: the new cache state
SetResult(st, cfg, key, value, ttl, t) ==
    LET entry == NewEntry(cfg, value, ttl, t)
        st1 == IF st.data[key] # Nil
               THEN SetExisting(st, st.data[key], entry)
               ELSE SetNew(st, cfg, key, entry)
    IN IF cfg.EnableMetrics THEN [st1 EXCEPT !.metrics.Sets = @ + 1] ELSE st1

\* mutant: a Delete that counts a delete even when the key is absent
DeleteAlwaysCounts(st, cfg, key) ==
    LET st1 == IF st.data[key] # Nil THEN removeElementUnsafe(st, st.data[key]) ELSE st
    IN IF cfg.EnableMetrics THEN [st1 EXCEPT !.metrics.Deletes = @ + 1] ELSE st1

DeleteResult(st, cfg, key) ==
    IF st.data[key] # Nil
    THEN LET st1 == removeElementUnsafe(st, st.data[key])
         IN IF cfg.EnableMetrics THEN [st1 EXCEPT !.metrics.Deletes = @ + 1]
            ELSE st1
    ELSE st

ClearResult(st, cfg, t) ==
    [data |-> [k \in Keys |-> Nil],
     lruList |-> <<>>,
     metrics |-> IF cfg.EnableMetrics THEN NewMetrics(t) ELSE st.metrics]

\* mutant: a Has that does not look at the expiry time
HasIgnoresExpiry(st, key, t) == st.data[key] # Nil

HasResult(st, key, t) ==
    IF st.data[key] = Nil THEN FALSE
    ELSE ~IsExpired(ElementAt(st.lruList, st.data[key]).entry, t)

GetMetricsResult(st, cfg) ==
    IF cfg.EnableMetrics
    THEN [st EXCEPT !.metrics =
            updateHitRate([@ EXCEPT !.Size = Cardinality(IndexedKeys(st.data)),
                                    !.MemoryUsage = estimateMemoryUsage(st)])]
    ELSE st

\* mutant: a sweep that also collects the entries expiring right now
ExpiredElementsAtDeadline(l, t) ==
    { l[i].id : i \in { j \in 1..Len(l) :
                          l[j].entry.ExpiresAt # ZeroTime /\ t >= l[j].entry.ExpiresAt } }

\* the elements cleanupExpired collects at time t, in list order
ExpiredElements(l, t) ==
    { l[i].id : i \in { j \in 1..Len(l) :
                          l[j].entry.ExpiresAt # ZeroTime /\ t > l[j].entry.ExpiresAt } }

RECURSIVE RemoveAll(_, _, _)
RemoveAll(st, cfg, toRemove) ==
    IF toRemove = {} THEN st
    ELSE LET e == CHOOSE x \in toRemove : TRUE
             st1 == removeElementUnsafe(st, e)
             st2 == IF cfg.EnableMetrics
                    THEN [st1 EXCEPT !.metrics.Evictions = @ + 1] ELSE st1
         IN RemoveAll(st2, cfg, toRemove \ {e})

cleanupExpiredResult(st, cfg, t) ==
    RemoveAll(st, cfg, ExpiredElements(st.lruList, t))


\* ------------------------------------------------------------ history helpers
RECURSIVE WithoutKey(_, _)
WithoutKey(s, k) ==
    IF s = <<>> THEN <<>>
    ELSE IF Head(s) = k THEN WithoutKey(Tail(s), k)
         ELSE <<Head(s)>> \o WithoutKey(Tail(s), k)

Touched(order, k) == <<k>> \o WithoutKey(order, k)

NoStore == [live |-> FALSE, v |-> Zero, s |-> 0, d |-> 0, dflt |-> 0]

NoSnap == NewMetrics(ZeroTime)

Ret(op, key, found, value, size, keys, snap) ==
    [op |-> op, key |-> key, found |-> found, value |-> value,
     size |-> size, keys |-> keys, snap |-> snap]

Size == Cardinality(IndexedKeys(data))

\* the configurations a cache is constructed with
Configs ==
    [DefaultTTL : {0}, MaxSize : {0, Capacity}, EnableMetrics : BOOLEAN]

\* ========================================================= configuration
\* CacheConfig as the Manager resolves it (cache_manager.go); durations are in
\* seconds.  A name has its config, <<cfg>>, or none, NoConfig.
NoConfig == <<>>

\* DefaultConfig(): 1 hour, 1000 entries, 5 minutes, metrics enabled
DefaultConfig ==
    [DefaultTTL |-> 3600, MaxSize |-> 1000, CleanupInterval |-> 300,
     EnableMetrics |-> TRUE]

Failed == [ok |-> FALSE, val |-> 0]
Parsed(n) == [ok |-> TRUE, val |-> n]

\* time.ParseDuration on the strings of the model: a number needs a unit,
\* but for "0"
ParseDuration(s) ==
    CASE s = "2h" -> Parsed(7200)
      [] s = "10m" -> Parsed(600)
      [] s = "0" -> Parsed(0)
      [] OTHER -> Failed

\* strconv.Atoi on the strings of the model
Atoi(s) ==
    CASE s = "1800" -> Parsed(1800)
      [] s = "90" -> Parsed(90)
      [] s = "60" -> Parsed(60)
      [] s = "500" -> Parsed(500)
      [] s = "200" -> Parsed(200)
      [] s = "1" -> Parsed(1)
      [] s = "0" -> Parsed(0)
      [] OTHER -> Failed

\* os.Getenv(prefix + knob): the variables prefixed with a cache name are
\* those of the one name env.name
Getenv(name, knob) ==
    IF name = NoCache THEN env.global[knob]
    ELSE IF name = env.name THEN env.named[knob] ELSE ""

\* mutant: a duration setting that is read as a duration only
DurationOnlySetting(s, cur) ==
    IF s # "" /\ ParseDuration(s).ok THEN ParseDuration(s).val ELSE cur

\* the TTL and CLEANUP_INTERVAL branches: a duration, else whole seconds,
\* else the value the config has
DurationSetting(s, cur) ==
    IF s = "" THEN cur
    ELSE IF ParseDuration(s).ok THEN ParseDuration(s).val
    ELSE IF Atoi(s).ok THEN Atoi(s).val
    ELSE cur

\* the MAX_SIZE branches: a positive integer, else the value the config has
MaxSizeSetting(s, cur) ==
    IF s # "" /\ Atoi(s).ok /\ Atoi(s).val > 0 THEN Atoi(s).val ELSE cur

\* the ENABLE_METRICS branch: any text but "true" and "1" disables
EnableMetricsSetting(s, cur) ==
    IF s = "" THEN cur ELSE s \in {"true", "1"}

\* the general settings
GlobalConfigFromEnv ==
    [DefaultTTL |-> DurationSetting(Getenv(NoCache, "DEFAULT_TTL"),
                                    DefaultConfig.DefaultTTL),
     MaxSize |-> MaxSizeSetting(Getenv(NoCache, "MAX_SIZE"), DefaultConfig.MaxSize),
     CleanupInterval |-> DurationSetting(Getenv(NoCache, "CLEANUP_INTERVAL"),
                                         DefaultConfig.CleanupInterval),
     EnableMetrics |-> EnableMetricsSetting(Getenv(NoCache, "ENABLE_METRICS"),
                                            DefaultConfig.EnableMetrics)]

\* mutant: a ConfigFromEnv without the cache-specific settings
ConfigFromGlobalEnv(cacheName) == GlobalConfigFromEnv

\* ConfigFromEnv(cacheName): the general settings, then the cache-specific
\* ones, which exist for TTL and MAX_SIZE
ConfigFromEnv(cacheName) ==
    [GlobalConfigFromEnv EXCEPT
       !.DefaultTTL = DurationSetting(Getenv(cacheName, "TTL"), @),
       !.MaxSize = MaxSizeSetting(Getenv(cacheName, "MAX_SIZE"), @)]

\* no variable is set
NoEnv ==
    [global |-> [DEFAULT_TTL |-> "", MAX_SIZE |-> "", CLEANUP_INTERVAL |-> "",
                 ENABLE_METRICS |-> ""],
     named |-> [TTL |-> "", MAX_SIZE |-> "", CLEANUP_INTERVAL |-> "",
                ENABLE_METRICS |-> ""],
     name |-> NoCache]

\* ================================================================ Manager
\* The registry of named caches (cache_manager.go).  An engine is identified
\* by its position in engines; m is [caches, configs, closed, engines].

NoHandle == [kind |-> "none", id |-> NoCache]

\* the handle of a NoOpCache
NewNoOpCache == [kind |-> "noop", id |-> NoCache]

\* the handle of the MemoryCache e
MemoryHandle(e) == [kind |-> "memory", id |-> e]

NewManager ==
    [caches |-> [n \in Names |-> NoCache],
     configs |-> [n \in Names |-> NoConfig],
     closed |-> FALSE,
     engines |-> <<>>]

ManagerState ==
    [caches |-> caches, configs |-> configs, closed |-> closed, engines |-> engines]

\* mutant: a Manager that never sees itself closed
NeverClosed(m) == FALSE

\* if manager.closed
IsClosed(m) == m.closed

\* cache, exists := manager.caches[name]; typedCache, ok := cache.(Cache[T])
TypeAssertionOk(m, name, T) ==
    /\ m.caches[name] # NoCache
    /\ m.engines[m.caches[name]].type = T

\* the config of the name is the one in m.configs, else the one resolved from
\* the environment, which is then kept in m.configs
getConfigForCache(m, name) ==
    IF m.configs[name] # NoConfig THEN m
    ELSE [m EXCEPT !.configs[name] = <<ConfigFromEnv(name)>>]

\* m.configs[name] = config
SetCacheConfigState(m, name, cfg) == [m EXCEPT !.configs[name] = <<cfg>>]

\* NewMemoryCache[T](config): an empty engine whose sweeper runs
NewMemoryCache(name, T, cfg) ==
    [name |-> name, type |-> T, stops |-> 0, sweeper |-> "running", config |-> cfg,
     keys |-> {}, sets |-> 0, size |-> 0, mu |-> [w |-> NoThread, r |-> {}]]

\* mutant: a GetMetrics that never refreshes the Size field
MemoryGetMetricsStale(e) == e

\* MemoryCache.GetMetrics on engine e: metrics.Size is refreshed from
\* len(mc.data) when metrics are enabled, and the snapshot is a copy
MemoryGetMetrics(e) ==
    IF e.config.EnableMetrics THEN [e EXCEPT !.size = Cardinality(e.keys)] ELSE e

\* cache := NewMemoryCache[T](config); caches[name] = cache; configs[name] = config
CreateCache(m, name, T) ==
    LET m1 == getConfigForCache(m, name)
        e == Len(m1.engines) + 1
    IN [m1 EXCEPT !.engines = Append(@, NewMemoryCache(name, T, m1.configs[name][1])),
                  !.caches[name] = e]

\* GetOrCreateCache[T](manager, name): [m, handle]
GetOrCreateCacheResult(m, name, T) ==
    IF IsClosed(m) THEN [m |-> m, handle |-> NewNoOpCache]
    ELSE IF TypeAssertionOk(m, name, T)
         THEN [m |-> m, handle |-> MemoryHandle(m.caches[name])]
         ELSE LET m1 == CreateCache(m, name, T)
              IN [m |-> m1, handle |-> MemoryHandle(m1.caches[name])]

\* the value type GetCache's switch on cacheType picks
SwitchCacheType(cacheType) ==
    IF cacheType \in {"string", "int"} THEN cacheType ELSE "any"

\* m.GetCache(name, cacheType): [m, handle]
GetCacheResult(m, name, cacheType) ==
    IF IsClosed(m) THEN [m |-> m, handle |-> NewNoOpCache]
    ELSE IF m.caches[name] # NoCache
         THEN [m |-> m, handle |-> MemoryHandle(m.caches[name])]
         ELSE LET m1 == CreateCache(m, name, SwitchCacheType(cacheType))
              IN [m |-> m1, handle |-> MemoryHandle(m1.caches[name])]

GetCacheNamesResult(m) == { n \in Names : m.caches[n] # NoCache }

\* every MemoryCache provides GetMetrics, so every name gets an entry
GetAllMetricsResult(m) == { n \in Names : m.caches[n] # NoCache }

\* mutant: a Close that forgets to empty the maps and to set closed
CloseKeepsState(m) == m

\* Close, after the loop: the maps are replaced and closed is set
CloseState(m) ==
    [m EXCEPT !.caches = [n \in Names |-> NoCache],
              !.configs = [n \in Names |-> NoConfig],
              !.closed = TRUE]

\* ------------------------------------------------------------ NoOpCache
NoOpGet(key) == [found |-> FALSE, value |-> Zero]
NoOpSize == 0
NoOpKeys == {}
NoOpHas(key) == FALSE
NoOpGetMetrics(t) == NewMetrics(t)

MRet(op, name, h, names, wasClosed) ==
    [op |-> op, name |-> name, handle |-> h, names |-> names, wasClosed |-> wasClosed,
     found |-> FALSE, value |-> Zero, size |-> 0, keys |-> {}, snap |-> NoSnap,
     sizes |-> [n \in Names |-> 0]]

NoManagerCall == [op |-> "none", name |-> NoCache, type |-> "any"]

NoManagerLocal ==
    [caches |-> [n \in Names |-> NoCache], configs |-> [n \in Names |-> NoConfig],
     closed |-> FALSE, pending |-> {}, current |-> NoCache]

InitManager ==
    /\ caches = NewManager.caches
    /\ configs = NewManager.configs
    /\ closed = NewManager.closed
    /\ engines = NewManager.engines
    /\ managerMu = [w |-> NoThread, r |-> {}]
    /\ mpc = [t \in Callers |-> "idle"]
    /\ mcall = [t \in Callers |-> NoManagerCall]
    /\ mlocal = [t \in Callers |-> NoManagerLocal]
    /\ handle = [t \in Callers |-> NoHandle]
    /\ mret = MRet("NewManager", NoCache, NoHandle, {}, FALSE)
    /\ requested = [n \in Names |-> {}]
    /\ returned = [n \in Names |-> {}]
    /\ preset = [n \in Names |-> NoConfig]

\* ====================================================== clipboard service
\* The clipboards table (clipboard.go) and the cache in front of it
\* (clipboard_cache.go).  The content of a row is the number of the write
\* that stored it, so every write stores new content.
Ids == 1..NumIds
Titles == 1..NumTitles

NoErr == ""
ErrRecordNotFound == "record not found"
ErrUnique == "UNIQUE constraint failed: clipboard.title"
ErrDB == "database error"

Clipboard(id, title, content) == [ID |-> id, Title |-> title, Content |-> content]
NoClipboard == Clipboard(NoID, NoTitle, 0)

NoRow == [Title |-> NoTitle, Content |-> 0]
NoList == [i \in Ids |-> NoRow]

\* an empty table; writes counts the mutations done, nextID is the next key
NewDB == [rows |-> NoList, writes |-> 0, nextID |-> 1]

Exists(d, id) == d.rows[id].Content > 0

RowOf(d, id) == Clipboard(id, d.rows[id].Title, d.rows[id].Content)

\* the uniqueIndex on title: another row has the title
TitleTaken(d, title, id) ==
    \E i \in Ids \ {id} : Exists(d, i) /\ d.rows[i].Title = title

StoreResult(d, err, clip, list) == [db |-> d, err |-> err, clip |-> clip, list |-> list]

StoreError(d, err) == StoreResult(d, err, NoClipboard, NoList)

\* Each store function takes fail: the database returns an error of its own.
GetAllClipboards(d, fail) ==
    IF fail THEN StoreError(d, ErrDB) ELSE StoreResult(d, NoErr, NoClipboard, d.rows)

GetClipboardByID(d, id, fail) ==
    IF fail THEN StoreError(d, ErrDB)
    ELSE IF ~Exists(d, id) THEN StoreError(d, ErrRecordNotFound)
    ELSE StoreResult(d, NoErr, RowOf(d, id), NoList)

GetClipboardByTitle(d, title, fail) ==
    IF fail THEN StoreError(d, ErrDB)
    ELSE IF \A i \in Ids : ~(Exists(d, i) /\ d.rows[i].Title = title)
         THEN StoreError(d, ErrRecordNotFound)
    ELSE LET i == CHOOSE j \in Ids : Exists(d, j) /\ d.rows[j].Title = title
         IN StoreResult(d, NoErr, RowOf(d, i), NoList)

\* the row id is written with the title and new content
SaveRow(d, id, title) ==
    [d EXCEPT !.rows[id] = [Title |-> title, Content |-> d.writes + 1],
              !.writes = @ + 1]

\* c.CreateClipboard(): an empty title is replaced by the generated one, then
\* the row is inserted under the next key
CreateClipboard(d, c, generated, fail) ==
    LET title == IF c.Title = NoTitle THEN generated ELSE c.Title
    IN IF fail THEN StoreError(d, ErrDB)
       ELSE IF TitleTaken(d, title, NoID) THEN StoreError(d, ErrUnique)
       ELSE StoreResult([SaveRow(d, d.nextID, title) EXCEPT !.nextID = @ + 1], NoErr,
                        Clipboard(d.nextID, title, d.writes + 1), NoList)

\* c.UpdateClipboard(): Save writes every field of c
UpdateClipboard(d, c, fail) ==
    IF fail THEN StoreError(d, ErrDB)
    ELSE IF TitleTaken(d, c.Title, c.ID) THEN StoreError(d, ErrUnique)
    ELSE StoreResult(SaveRow(d, c.ID, c.Title), NoErr,
                     Clipboard(c.ID, c.Title, d.writes + 1), NoList)

\* c.DeleteClipboard(): Delete by primary key; no row is no error
DeleteClipboard(d, c, fail) ==
    IF fail THEN StoreError(d, ErrDB)
    ELSE StoreResult([d EXCEPT !.rows[c.ID] = NoRow, !.writes = @ + 1], NoErr,
                     c, NoList)

\* ------------------------------------------------ the cache of the service
\* ClipboardCacheKey(operation, identifier): "clipboard:<operation>:<identifier>".
\* No operation used is a prefix of another, so two keys are equal exactly when
\* operation and identifier are: the key is the pair.
ClipboardCacheKey(operation, identifier) == <<operation, identifier>>

CacheKeys ==
    {ClipboardCacheKey("list", All)}
      \cup {ClipboardCacheKey("id", i) : i \in Ids}
      \cup {ClipboardCacheKey(o, t) : o \in {"title", "content"}, t \in Titles}

\* A cached value carries asOf, the number of writes the table had seen when
\* the value was read from it or written to it.
NoValue == [kind |-> "none", asOf |-> 0, clip |-> NoClipboard, list |-> NoList]
ListValue(list, asOf) == [NoValue EXCEPT !.kind = "list", !.asOf = asOf, !.list = list]
ClipValue(clip, asOf) ==
    [NoValue EXCEPT !.kind = "clipboard", !.asOf = asOf, !.clip = clip]
ContentValue(clip, asOf) ==
    [NoValue EXCEPT !.kind = "content", !.asOf = asOf, !.clip.Content = clip.Content]

\* s.cache.Get, s.cache.Set and s.cache.Delete on the entries held
CacheGet(c, key) == [found |-> c[key] # NoValue, value |-> c[key]]
CacheSet(c, key, v) == [c EXCEPT ![key] = v]
CacheDelete(c, key) == [c EXCEPT ![key] = NoValue]

ServiceResult(c, d, err, v, calls, hit) ==
    [entries |-> c, db |-> d, err |-> err, value |-> v, calls |-> calls, hit |-> hit]

\* mutant: a read that returns what it fetched without storing it
ReadAround(c, d, key, kind, r, v) ==
    IF CacheGet(c, key).found /\ CacheGet(c, key).value.kind = kind
    THEN ServiceResult(c, d, NoErr, CacheGet(c, key).value, 0, TRUE)
    ELSE IF r.err # NoErr THEN ServiceResult(c, d, r.err, NoValue, 1, FALSE)
    ELSE ServiceResult(c, d, NoErr, v, 1, FALSE)

\* the body the four reads share: the value under key if it is there and of
\* the expected type; else the store is asked (r is what it answers), its error
\* is returned, or its value v is stored under key and returned
ReadThrough(c, d, key, kind, r, v) ==
    IF CacheGet(c, key).found /\ CacheGet(c, key).value.kind = kind
    THEN ServiceResult(c, d, NoErr, CacheGet(c, key).value, 0, TRUE)
    ELSE IF r.err # NoErr THEN ServiceResult(c, d, r.err, NoValue, 1, FALSE)
    ELSE ServiceResult(CacheSet(c, key, v), d, NoErr, v, 1, FALSE)

GetAllClipboardsCached(c, d, fail) ==
    LET r == GetAllClipboards(d, fail)
    IN ReadThrough(c, d, ClipboardCacheKey("list", All), "list", r,
                   ListValue(r.list, d.writes))

GetClipboardByIDCached(c, d, id, fail) ==
    LET r == GetClipboardByID(d, id, fail)
    IN ReadThrough(c, d, ClipboardCacheKey("id", id), "clipboard", r,
                   ClipValue(r.clip, d.writes))

GetClipboardByTitleCached(c, d, title, fail) ==
    LET r == GetClipboardByTitle(d, title, fail)
    IN ReadThrough(c, d, ClipboardCacheKey("title", title), "clipboard", r,
                   ClipValue(r.clip, d.writes))

GetClipboardContentByTitleCached(c, d, title, fail) ==
    LET r == GetClipboardByTitle(d, title, fail)
    IN ReadThrough(c, d, ClipboardCacheKey("content", title), "content", r,
                   ContentValue(r.clip, d.writes))

invalidateListCache(c) == CacheDelete(c, ClipboardCacheKey("list", All))

\* the title and the content key of a title are set to the entity written
SetTitleKeys(c, clip, asOf) ==
    IF clip.Title = NoTitle THEN c
    ELSE CacheSet(CacheSet(c, ClipboardCacheKey("title", clip.Title),
                           ClipValue(clip, asOf)),
                  ClipboardCacheKey("content", clip.Title), ContentValue(clip, asOf))

DeleteTitleKeys(c, title) ==
    IF title = NoTitle THEN c
    ELSE CacheDelete(CacheDelete(c, ClipboardCacheKey("title", title)),
                     ClipboardCacheKey("content", title))

\* s.CreateClipboard(clipboard)
CreateClipboardCached(c, d, clip, generated, fail) ==
    LET r == CreateClipboard(d, clip, generated, fail)
    IN IF r.err # NoErr THEN ServiceResult(c, d, r.err, NoValue, 1, FALSE)
       ELSE ServiceResult(SetTitleKeys(invalidateListCache(c), r.clip, r.db.writes),
                          r.db, NoErr, ClipValue(r.clip, r.db.writes), 1, FALSE)

\* mutant: an update that invalidates before it knows the mutation succeeded
UpdateInvalidatesFirst(c, d, clip, failLookup, fail) ==
    LET r == UpdateClipboard(d, clip, fail)
        c1 == CacheDelete(invalidateListCache(c), ClipboardCacheKey("id", clip.ID))
    IN IF r.err # NoErr THEN ServiceResult(c1, d, r.err, NoValue, 2, FALSE)
       ELSE ServiceResult(SetTitleKeys(c1, r.clip, r.db.writes), r.db, NoErr,
                          ClipValue(r.clip, r.db.writes), 2, FALSE)

\* s.UpdateClipboard(clipboard): the previous record is looked up in the
\* store and the error of that lookup is dropped
UpdateClipboardCached(c, d, clip, failLookup, fail) ==
    LET old == GetClipboardByID(d, clip.ID, failLookup)
        r == UpdateClipboard(d, clip, fail)
        c1 == invalidateListCache(c)
        c2 == IF old.err = NoErr /\ old.clip.Title # clip.Title
              THEN DeleteTitleKeys(c1, old.clip.Title) ELSE c1
        c3 == SetTitleKeys(c2, r.clip, r.db.writes)
    IN IF r.err # NoErr THEN ServiceResult(c, d, r.err, NoValue, 2, FALSE)
       ELSE ServiceResult(CacheDelete(c3, ClipboardCacheKey("id", clip.ID)), r.db,
                          NoErr, ClipValue(r.clip, r.db.writes), 2, FALSE)

\* s.DeleteClipboard(clipboard): the title keys are those of the title the
\* caller put in clipboard
DeleteClipboardCached(c, d, clip, fail) ==
    LET r == DeleteClipboard(d, clip, fail)
        c1 == DeleteTitleKeys(invalidateListCache(c), clip.Title)
    IN IF r.err # NoErr THEN ServiceResult(c, d, r.err, NoValue, 1, FALSE)
       ELSE ServiceResult(CacheDelete(c1, ClipboardCacheKey("id", clip.ID)), r.db,
                          NoErr, NoValue, 1, FALSE)

\* PUT /api/clipboard/:id: the record is read from the store, changed and
\* saved; the cache is not used
HandleUpdateClipboard(c, d, id, title, failLookup, fail) ==
    LET existing == GetClipboardByID(d, id, failLookup)
        r == UpdateClipboard(d, [existing.clip EXCEPT
                                   !.Title = IF title # NoTitle THEN title ELSE @],
                             fail)
    IN IF existing.err # NoErr THEN ServiceResult(c, d, existing.err, NoValue, 1, FALSE)
       ELSE IF r.err # NoErr THEN ServiceResult(c, d, r.err, NoValue, 2, FALSE)
       ELSE ServiceResult(c, r.db, NoErr, ClipValue(r.clip, r.db.writes), 2, FALSE)

\* DELETE /api/clipboard/:id: the record is read from the store and deleted;
\* the cache is not used
HandleDeleteClipboard(c, d, id, failLookup, fail) ==
    LET existing == GetClipboardByID(d, id, failLookup)
        r == DeleteClipboard(d, existing.clip, fail)
    IN IF existing.err # NoErr THEN ServiceResult(c, d, existing.err, NoValue, 1, FALSE)
       ELSE IF r.err # NoErr THEN ServiceResult(c, d, r.err, NoValue, 2, FALSE)
       ELSE ServiceResult(c, r.db, NoErr, NoValue, 2, FALSE)

\* what a call leaves for the caller: the call and its result; as history,
\* the error the store raised in the call and, of a write, the entity, the
\* title it had and the title it has in the table
WRet(op, arg, r, id, oldTitle, raised) ==
    [op |-> op, arg |-> arg, err |-> r.err, value |-> r.value, calls |-> r.calls,
     hit |-> r.hit, raised |-> raised, id |-> id, oldTitle |-> oldTitle,
     newTitle |-> IF id = NoID THEN NoTitle ELSE r.db.rows[id].Title,
     asOf |-> r.db.writes]

NoWRet ==
    WRet("none", NoID, ServiceResult(<<>>, NewDB, NoErr, NoValue, 0, FALSE), NoID,
         NoTitle, NoErr)

\* no read is between its fetch and its Set
NoInflight ==
    [stage |-> "none", op |-> "none", arg |-> NoID,
     key |-> ClipboardCacheKey("none", All), value |-> NoValue]

\* NewMemoryCache for the second engine: empty, like the first
NewTwin ==
    [st |-> [data |-> [k \in Keys |-> Nil], lruList |-> <<>>, metrics |-> NewMetrics(0)],
     ret |-> Ret("New", NoKey, FALSE, Zero, 0, {}, NoSnap)]

InitClipboard ==
    /\ db = NewDB
    /\ entries = [k \in CacheKeys |-> NoValue]
    /\ wret = NoWRet
    /\ twin = NewTwin
    /\ inflight = NoInflight

InitService == env = NoEnv /\ InitClipboard

\* -------------------------------------------------------------------- Init
InitCache ==
    /\ data = [k \in Keys |-> Nil]
    /\ lruList = <<>>
    /\ now = 0
    /\ metrics = NewMetrics(0)
    /\ ret = Ret("New", NoKey, FALSE, Zero, 0, {}, NoSnap)
    /\ touchOrder = <<>>
    /\ stored = [k \in Keys |-> NoStore]
    /\ capInserts = 0
    /\ expRemovals = 0
    /\ getHits = 0
    /\ getMisses = 0
    /\ nops = 0

NoLocal ==
    [data |-> [k \in Keys |-> Nil], lruList |-> <<>>, metrics |-> NewMetrics(ZeroTime)]

NoCall == [op |-> "none", key |-> NoKey, value |-> Zero, ttl |-> 0]

InitThreads ==
    /\ mu = [w |-> NoThread, r |-> {}]
    /\ pc = [t \in Threads |-> "idle"]
    /\ call = [t \in Threads |-> NoCall]
    /\ done = [t \in Threads |-> 0]
    /\ stopCleanup = FALSE
    /\ cleanupDone = FALSE
    /\ sweeper = "select"
    /\ tick = FALSE
    /\ closer = "idle"
    /\ local = [t \in Threads \cup {SweeperId} |-> NoLocal]
    /\ sweptAfterClose = FALSE

InitConc == InitThreads /\ InitManager /\ InitService

Init == config \in Configs /\ InitCache /\ InitConc

\* ------------------------------------------- the operations, one call each
\* Each Do*(st, ...) is what an operation does between taking and releasing
\* mc.mu, started from the cache state st it reads.

Install(st) ==
    /\ data' = st.data
    /\ lruList' = st.lruList
    /\ metrics' = st.metrics

DoGet(st0, k) ==
    LET r == GetResult(st0, config, k, now)
    IN /\ Install(r.st)
       /\ ret' = Ret("Get", k, r.found, r.value, 0, {}, NoSnap)
       /\ touchOrder' = IF r.found THEN Touched(touchOrder, k) ELSE touchOrder
       /\ expRemovals' = IF r.expired THEN expRemovals + 1 ELSE expRemovals
       /\ getHits' = IF r.found THEN getHits + 1 ELSE getHits
       /\ getMisses' = IF r.found THEN getMisses ELSE getMisses + 1
       /\ UNCHANGED <<config, stored, capInserts>>

DoSet(st0, k, v, ttl) ==
    LET st == SetResult(st0, config, k, v, ttl, now)
        isNew == st0.data[k] = Nil
        full == config.MaxSize > 0
                  /\ Cardinality(IndexedKeys(st0.data)) >= config.MaxSize
        gone == IndexedKeys(st0.data) \ IndexedKeys(st.data)
    IN /\ Install(st)
       /\ ret' = Ret("Set", k, FALSE, v, 0, gone, NoSnap)
       /\ touchOrder' = Touched(touchOrder, k)
       /\ stored' = [x \in Keys |->
                       IF x = k THEN [live |-> TRUE, v |-> v, s |-> now, d |-> ttl,
                                      dflt |-> config.DefaultTTL]
                       ELSE IF x \in gone THEN [stored[x] EXCEPT !.live = FALSE]
                       ELSE stored[x]]
       /\ capInserts' = IF isNew /\ full THEN capInserts + 1 ELSE capInserts
       /\ UNCHANGED <<config, expRemovals, getHits, getMisses>>

DoDelete(st0, k) ==
    /\ Install(DeleteResult(st0, config, k))
    /\ ret' = Ret("Delete", k, FALSE, Zero, 0, {}, NoSnap)
    /\ stored' = [stored EXCEPT ![k].live = FALSE]
    /\ UNCHANGED <<config, touchOrder, capInserts, expRemovals, getHits, getMisses>>

DoClear(st0) ==
    /\ Install(ClearResult(st0, config, now))
    /\ ret' = Ret("Clear", NoKey, FALSE, Zero, 0, {}, NoSnap)
    /\ stored' = [k \in Keys |-> [stored[k] EXCEPT !.live = FALSE]]
    /\ capInserts' = IF config.EnableMetrics THEN 0 ELSE capInserts
    /\ expRemovals' = IF config.EnableMetrics THEN 0 ELSE expRemovals
    /\ getHits' = 0
    /\ getMisses' = 0
    /\ UNCHANGED <<config, touchOrder>>

DoSize(st0) ==
    /\ ret' = Ret("Size", NoKey, FALSE, Zero, Cardinality(IndexedKeys(st0.data)),
                  {}, NoSnap)
    /\ UNCHANGED <<cacheVars, histVars>>

DoKeys(st0) ==
    /\ ret' = Ret("Keys", NoKey, FALSE, Zero, 0, IndexedKeys(st0.data), NoSnap)
    /\ UNCHANGED <<cacheVars, histVars>>

DoHas(st0, k) ==
    /\ ret' = Ret("Has", k, HasResult(st0, k, now), Zero, 0, {}, NoSnap)
    /\ UNCHANGED <<cacheVars, histVars>>

DoSetDefaultTTL(ttl) ==
    /\ config' = [config EXCEPT !.DefaultTTL = ttl]
    /\ ret' = Ret("SetDefaultTTL", NoKey, FALSE, ttl, 0, {}, NoSnap)
    /\ UNCHANGED <<data, lruList, metrics, histVars>>

DoGetMetrics(st0) ==
    LET st == GetMetricsResult(st0, config)
    IN /\ Install(st)
       /\ ret' = Ret("GetMetrics", NoKey, FALSE, Zero, 0, {}, st.metrics)
       /\ UNCHANGED <<config, histVars>>

DocleanupExpired(st0) ==
    LET st == cleanupExpiredResult(st0, config, now)
    IN /\ Install(st)
       /\ ret' = Ret("cleanupExpired", NoKey, FALSE, Zero, 0,
                     IndexedKeys(st0.data) \ IndexedKeys(st.data), NoSnap)
       /\ expRemovals' = expRemovals + Cardinality(ExpiredElements(st0.lruList, now))
       /\ UNCHANGED <<config, touchOrder, stored, capInserts, getHits, getMisses>>

\* ------------------------------------------ one caller, calls in sequence
Called == nops' = nops + 1 /\ UNCHANGED <<now, concVars>>

Get(k) ==
    /\ nops < MaxOps
    /\ DoGet(CacheState, k)
    /\ Called

Set(k, v, ttl) ==
    /\ nops < MaxOps
    /\ DoSet(CacheState, k, v, ttl)
    /\ Called

Delete(k) ==
    /\ nops < MaxOps
    /\ DoDelete(CacheState, k)
    /\ Called

Clear ==
    /\ nops < MaxOps
    /\ DoClear(CacheState)
    /\ Called

cleanupExpired ==
    /\ nops < MaxOps
    /\ DocleanupExpired(CacheState)
    /\ Called

\* time passes between calls
Tick ==
    /\ nops < MaxOps
    /\ \E d \in 1..(MaxTime - now) : now' = now + d
    /\ nops' = nops + 1
    /\ UNCHANGED <<cacheVars, ret, histVars, concVars>>

Next ==
    \/ \E k \in Keys : Get(k)
    \/ \E k \in Keys, v \in Values, ttl \in TTLs : Set(k, v, ttl)
    \/ \E k \in Keys : Delete(k)
    \/ Clear
    \/ cleanupExpired
    \/ Tick

Spec == Init /\ [][Next]_vars

\* ------------------------- one caller that also changes the default TTL
SetDefaultTTL(ttl) ==
    /\ nops < MaxOps
    /\ DoSetDefaultTTL(ttl)
    /\ Called

\* the ttl arguments and default TTLs tried, negative ones included
SignedTTLs == (0 - MaxTTL)..MaxTTL

\* ---------------------------- one caller that also observes (Has, GetMetrics)
Has(k) ==
    /\ nops < MaxOps
    /\ DoHas(CacheState, k)
    /\ Called

GetMetrics ==
    /\ nops < MaxOps
    /\ DoGetMetrics(CacheState)
    /\ Called

NextObs ==
    \/ \E k \in Keys : Get(k)
    \/ \E k \in Keys, v \in Values, ttl \in TTLs : Set(k, v, ttl)
    \/ \E k \in Keys : Has(k)
    \/ GetMetrics
    \/ Clear
    \/ Tick

SpecObs == Init /\ [][NextObs]_vars

\* the caches of the TTL runs are built with no default TTL or a negative one
ConfigsTTL ==
    [DefaultTTL : {0 - MaxTTL, 0}, MaxSize : {0, Capacity}, EnableMetrics : {TRUE}]

InitTTL == config \in ConfigsTTL /\ InitCache /\ InitConc

NextTTL ==
    \/ \E k \in Keys : Get(k)
    \/ \E k \in Keys : Has(k)
    \/ \E k \in Keys, ttl \in SignedTTLs : Set(k, 1, ttl)
    \/ \E ttl \in SignedTTLs : SetDefaultTTL(ttl)
    \/ \E k \in Keys : Delete(k)
    \/ Clear
    \/ cleanupExpired
    \/ Tick

SpecTTL == InitTTL /\ [][NextTTL]_vars

\* ------------------------------------------------- the claims, C1 to C7
\* the entry stored under key k (NoEntry when k is not indexed)
EntryOf(d, l, k) == IF d[k] = Nil THEN NoEntry ELSE ElementAt(l, d[k]).entry

\* the recency list without the node of key k
RECURSIVE ListWithoutKey(_, _)
ListWithoutKey(l, k) ==
    IF l = <<>> THEN <<>>
    ELSE IF Head(l).key = k THEN ListWithoutKey(Tail(l), k)
         ELSE <<Head(l)>> \o ListWithoutKey(Tail(l), k)

\* this step is a completed call of op by the single caller
IsCall(op) == nops' = nops + 1 /\ now' = now /\ ret'.op = op

\* C1: with MaxSize > 0 the cache never holds more than MaxSize entries
\* after an operation; with MaxSize = 0 no Set removes an entry.
C1_CapacityInvariant ==
    /\ config.MaxSize > 0 => Size <= config.MaxSize
    /\ (config.MaxSize = 0 /\ ret.op = "Set") => ret.keys = {}

C1_Witness ==
    /\ config.MaxSize > 0
    /\ ret.op = "Set"
    /\ ret.keys # {}
    /\ Size = config.MaxSize

\* the key present in the index whose latest touch is the oldest
LeastRecentlyTouched ==
    touchOrder[CHOOSE i \in 1..Len(touchOrder) :
                 /\ touchOrder[i] \in IndexedKeys(data)
                 /\ \A j \in (i + 1)..Len(touchOrder) :
                       touchOrder[j] \notin IndexedKeys(data)]

\* C2: a Set that inserts a new key into a cache holding MaxSize entries
\* removes exactly the key whose latest touch (Set or Get hit) is the oldest.
C2_LRUCorrect ==
    [][\A k \in Keys :
         (IsCall("Set") /\ ret'.key = k /\ data[k] = Nil
            /\ config.MaxSize > 0 /\ Size = config.MaxSize)
         => IndexedKeys(data') = (IndexedKeys(data) \cup {k}) \ {LeastRecentlyTouched}]_vars

\* Set A, Set B, Get A, Set C at capacity 2: B is gone, A (inserted first) stays
C2_Witness ==
    /\ config.MaxSize = 2
    /\ ret.op = "Set" /\ ret.key = 3 /\ ret.keys = {2}
    /\ IndexedKeys(data) = {1, 3}
    /\ data[1] = 1
    /\ EntryOf(data, lruList, 1).AccessCount = 2
    /\ touchOrder = <<3, 1, 2>>

\* C3: an entry stored by Set(k, v, d), d > 0, at time s and still live is
\* returned by Get while now - s < d and reported absent once now - s > d.
C3_TTLCorrect ==
    \A k \in Keys :
        (stored[k].live /\ stored[k].d > 0) =>
            LET r == GetResult(CacheState, config, k, now)
            IN /\ now - stored[k].s < stored[k].d =>
                    (r.found /\ r.value = stored[k].v)
               /\ now - stored[k].s > stored[k].d => ~r.found

C3_Witness ==
    /\ ret.op = "Get" /\ ~ret.found
    /\ stored[ret.key].live /\ stored[ret.key].d > 0
    /\ now - stored[ret.key].s > stored[ret.key].d

\* C4: the index and the recency list are in 1:1 correspondence.
C4_IndexListInvariant ==
    /\ Len(lruList) = Cardinality(IndexedKeys(data))
    /\ \A k \in IndexedKeys(data) :
          /\ Cardinality({i \in 1..Len(lruList) : lruList[i].key = k}) = 1
          /\ \E i \in 1..Len(lruList) : lruList[i].id = data[k] /\ lruList[i].key = k
    /\ \A i \in 1..Len(lruList) :
          /\ lruList[i].key \in Keys
          /\ data[lruList[i].key] = lruList[i].id
    /\ \A i, j \in 1..Len(lruList) : lruList[i].id = lruList[j].id => i = j

C4_Witness ==
    /\ ret.op = "Delete"
    /\ \E i \in 1..Len(touchOrder) : touchOrder[i] = ret.key
    /\ data[ret.key] = Nil
    /\ Len(lruList) >= 1

\* C5 as stated: with metrics enabled, evictions counts exactly the inserts
\* of a new key into a full cache since the last reset.
C5_EvictionsAreCapacityInserts ==
    config.EnableMetrics => metrics.Evictions = capInserts

\* C5 amended: evictions counts the inserts into a full cache plus the expired
\* entries removed by Get and by the sweep since the last reset.
C5_EvictionAccounting ==
    config.EnableMetrics => metrics.Evictions = capInserts + expRemovals

C5_Witness ==
    /\ config.EnableMetrics
    /\ expRemovals >= 1
    /\ ret.op = "cleanupExpired"
    /\ metrics.Evictions >= 1

\* what C6 says of a Get on a present, unexpired key, but for the hits counter
GetHitEffect(k) ==
    /\ ret'.found
    /\ stored[k].live /\ ret'.value = stored[k].v
    /\ Len(lruList') >= 1 /\ lruList'[1].key = k
    /\ EntryOf(data', lruList', k).AccessCount = EntryOf(data, lruList, k).AccessCount + 1
    /\ EntryOf(data', lruList', k).Value = EntryOf(data, lruList, k).Value
    /\ EntryOf(data', lruList', k).ExpiresAt = EntryOf(data, lruList, k).ExpiresAt
    /\ data' = data
    /\ ListWithoutKey(lruList', k) = ListWithoutKey(lruList, k)
    /\ Cardinality(IndexedKeys(data')) = Size

IsGetHit(k) ==
    /\ IsCall("Get") /\ ret'.key = k
    /\ data[k] # Nil
    /\ ~IsExpired(EntryOf(data, lruList, k), now)

\* C6 as stated: a Get on a present, unexpired key returns the value of the
\* latest Set, makes the key most recently used, adds one to the entry's
\* access count and to hits, and changes nothing else.
C6_GetHitCountsHit ==
    [][\A k \in Keys :
         IsGetHit(k) => (GetHitEffect(k) /\ metrics'.Hits = metrics.Hits + 1)]_vars

\* C6 amended: the same, the hits counter growing by one when metrics are
\* enabled and no counter changing when they are disabled.
C6_GetHit ==
    [][\A k \in Keys :
         IsGetHit(k) =>
            /\ GetHitEffect(k)
            /\ config.EnableMetrics =>
                  /\ metrics'.Hits = metrics.Hits + 1
                  /\ [metrics' EXCEPT !.Hits = 0, !.HitRate = ZeroRate]
                       = [metrics EXCEPT !.Hits = 0, !.HitRate = ZeroRate]
            /\ ~config.EnableMetrics => metrics' = metrics]_vars

C6_Witness ==
    /\ ret.op = "Get" /\ ret.found
    /\ config.EnableMetrics /\ metrics.Hits >= 1
    /\ Len(lruList) >= 2
    /\ lruList[1].key = ret.key
    /\ lruList[1].entry.AccessCount >= 2
    /\ ret.value = 2

\* what C7 says of a Get that finds nothing, but for the misses counter
GetMissEffect(k) ==
    /\ ~ret'.found /\ ret'.value = Zero
    /\ data'[k] = Nil
    /\ \A x \in Keys \ {k} : data'[x] = data[x]
    /\ lruList' = ListWithoutKey(lruList, k)
    /\ data[k] # Nil => Cardinality(IndexedKeys(data')) = Size - 1
    /\ data[k] = Nil => Cardinality(IndexedKeys(data')) = Size

IsGetMiss(k) ==
    /\ IsCall("Get") /\ ret'.key = k
    /\ \/ data[k] = Nil
       \/ IsExpired(EntryOf(data, lruList, k), now)

\* C7 as stated: a Get on an absent or expired key returns (zero, false),
\* adds one to misses, removes the expired entry and touches no other entry.
C7_GetMissCountsMiss ==
    [][\A k \in Keys :
         IsGetMiss(k) => (GetMissEffect(k) /\ metrics'.Misses = metrics.Misses + 1)]_vars

\* C7 amended: the same, the misses counter growing by one when metrics are
\* enabled and no counter changing when they are disabled.
C7_GetMiss ==
    [][\A k \in Keys :
         IsGetMiss(k) =>
            /\ GetMissEffect(k)
            /\ config.EnableMetrics => metrics'.Misses = metrics.Misses + 1
            /\ ~config.EnableMetrics => metrics' = metrics]_vars

C7_Witness ==
    /\ ret.op = "Get" /\ ~ret.found
    /\ config.EnableMetrics /\ metrics.Misses >= 1
    /\ expRemovals >= 1
    /\ stored[ret.key].live
    /\ data[ret.key] = Nil
    /\ Len(lruList) >= 1

\* ============================================================ concurrency
\* Callers run on their own goroutines.  A call takes mc.mu (Lock or RLock),
\* works on the cache state it finds, and releases the lock when it returns
\* (defer Unlock / RUnlock).

\* mutant: a Lock that does not wait for the lock to be free
CanLockWhileHeld == TRUE

\* mc.mu.Lock() can return
CanLock == mu.w = NoThread /\ mu.r = {}

\* mutant: an RLock that does not wait for the writer
CanRLockWhileWriting == TRUE

\* mc.mu.RLock() can return
CanRLock == mu.w = NoThread

\* the operations that take the lock shared
IsReadOp(op) == op \in {"Size", "Keys", "Has", "GetMetrics"}

Call(op, k, v, ttl) == [op |-> op, key |-> k, value |-> v, ttl |-> ttl]

envVars == <<now, nops, stopCleanup, cleanupDone, sweeper, tick, closer, sweptAfterClose,
             managerVars, serviceVars>>

\* thread t enters call c: it takes the lock and reads the cache
Acquire(t, c) ==
    /\ pc[t] = "idle"
    /\ IF IsReadOp(c.op)
       THEN CanRLock /\ mu' = [mu EXCEPT !.r = @ \cup {t}]
       ELSE CanLock /\ mu' = [mu EXCEPT !.w = t]
    /\ pc' = [pc EXCEPT ![t] = "locked"]
    /\ call' = [call EXCEPT ![t] = c]
    /\ local' = [local EXCEPT ![t] = CacheState]
    /\ UNCHANGED <<cacheVars, ret, histVars, done, envVars>>

\* thread t returns from its call and releases the lock
Return(t) ==
    /\ mu' = [w |-> IF mu.w = t THEN NoThread ELSE mu.w, r |-> mu.r \ {t}]
    /\ pc' = [pc EXCEPT ![t] = "idle"]
    /\ call' = [call EXCEPT ![t] = NoCall]
    /\ done' = [done EXCEPT ![t] = @ + 1]
    /\ local' = [local EXCEPT ![t] = NoLocal]
    /\ UNCHANGED envVars

In(t, op) == pc[t] = "locked" /\ call[t].op = op

GetCall(t) ==
    /\ In(t, "Get")
    /\ DoGet(local[t], call[t].key)
    /\ Return(t)

SetCall(t) ==
    /\ In(t, "Set")
    /\ DoSet(local[t], call[t].key, call[t].value, call[t].ttl)
    /\ Return(t)

DeleteCall(t) ==
    /\ In(t, "Delete")
    /\ DoDelete(local[t], call[t].key)
    /\ Return(t)

\* Clear, first half: the index and the list are replaced (lines 243-244)
ClearEntries(t) ==
    /\ In(t, "Clear")
    /\ data' = [k \in Keys |-> Nil]
    /\ lruList' = <<>>
    /\ pc' = [pc EXCEPT ![t] = "clearing"]
    /\ UNCHANGED <<config, metrics, ret, histVars, mu, call, done, local, envVars>>

\* Clear, second half: the metrics are reset, then the deferred Unlock
ClearCall(t) ==
    /\ pc[t] = "clearing"
    /\ call[t].op = "Clear"
    /\ DoClear(local[t])
    /\ Return(t)

SizeCall(t) ==
    /\ In(t, "Size")
    /\ DoSize(CacheState)
    /\ Return(t)

KeysCall(t) ==
    /\ In(t, "Keys")
    /\ DoKeys(CacheState)
    /\ Return(t)

HasCall(t) ==
    /\ In(t, "Has")
    /\ DoHas(CacheState, call[t].key)
    /\ Return(t)

SetDefaultTTLCall(t) ==
    /\ In(t, "SetDefaultTTL")
    /\ DoSetDefaultTTL(call[t].ttl)
    /\ Return(t)

GetMetricsCall(t) ==
    /\ In(t, "GetMetrics")
    /\ DoGetMetrics(CacheState)
    /\ Return(t)

\* ------------------------------------------------ the sweeper and Close
threadVars == <<pc, call, done>>

\* time passes
Advance ==
    /\ now < MaxTime
    /\ now' = now + 1
    /\ UNCHANGED <<cacheVars, ret, histVars, nops, concVars>>

\* the ticker puts a tick in ticker.C (capacity 1) until it is stopped
TickerFire ==
    /\ sweeper # "exited"
    /\ ~tick
    /\ tick' = TRUE
    /\ UNCHANGED <<cacheVars, ret, histVars, now, nops, mu, threadVars, stopCleanup,
                   cleanupDone, sweeper, closer, local, sweptAfterClose, managerVars,
                   serviceVars>>

\* startCleanup: select takes case <-ticker.C and calls cleanupExpired
SweeperWake ==
    /\ sweeper = "select"
    /\ tick
    /\ tick' = FALSE
    /\ sweeper' = "cleanup"
    /\ sweptAfterClose' = (sweptAfterClose \/ closer = "returned")
    /\ UNCHANGED <<cacheVars, ret, histVars, now, nops, mu, threadVars, stopCleanup,
                   cleanupDone, closer, local, managerVars, serviceVars>>

\* cleanupExpired: mc.mu.Lock()
SweeperLock ==
    /\ sweeper = "cleanup"
    /\ CanLock
    /\ mu' = [mu EXCEPT !.w = SweeperId]
    /\ sweeper' = "locked"
    /\ local' = [local EXCEPT ![SweeperId] = CacheState]
    /\ UNCHANGED <<cacheVars, ret, histVars, now, nops, threadVars, stopCleanup,
                   cleanupDone, tick, closer, sweptAfterClose, managerVars,
                   serviceVars>>

\* cleanupExpired: the pass itself, then the deferred Unlock
SweeperRun ==
    /\ sweeper = "locked"
    /\ DocleanupExpired(local[SweeperId])
    /\ mu' = [w |-> IF mu.w = SweeperId THEN NoThread ELSE mu.w, r |-> mu.r]
    /\ sweeper' = "select"
    /\ local' = [local EXCEPT ![SweeperId] = NoLocal]
    /\ UNCHANGED <<now, nops, threadVars, stopCleanup, cleanupDone, tick, closer,
                   sweptAfterClose, managerVars,
                   serviceVars>>

\* startCleanup: select takes case <-mc.stopCleanup and returns; the deferred
\* calls stop the ticker and close mc.cleanupDone
SweeperStop ==
    /\ sweeper = "select"
    /\ stopCleanup
    /\ sweeper' = "exited"
    /\ cleanupDone' = TRUE
    /\ UNCHANGED <<cacheVars, ret, histVars, now, nops, mu, threadVars, stopCleanup,
                   tick, closer, local, sweptAfterClose, managerVars,
                   serviceVars>>

\* Close: close(mc.stopCleanup)
CloseBegin ==
    /\ closer = "idle"
    /\ stopCleanup' = TRUE
    /\ closer' = "waiting"
    /\ UNCHANGED <<cacheVars, ret, histVars, now, nops, mu, threadVars, cleanupDone,
                   sweeper, tick, local, sweptAfterClose, managerVars,
                   serviceVars>>

\* mutant: Close that returns without waiting for the sweeper
CloseDoesNotWait == TRUE

\* Close: <-mc.cleanupDone can return
CanCloseReturn == cleanupDone

CloseReturn ==
    /\ closer = "waiting"
    /\ CanCloseReturn
    /\ closer' = "returned"
    /\ UNCHANGED <<cacheVars, ret, histVars, now, nops, mu, threadVars, stopCleanup,
                   cleanupDone, sweeper, tick, local, sweptAfterClose, managerVars,
                   serviceVars>>

\* ------------------------------------------- writers and readers (C8)
\* the keys writer w stores, one Set each, in ascending order
OwnedKeys(w) == { k \in Keys : ((k - 1) % NumWriters) + 1 = w }

WriterValue(w, k) == w * 100 + k

OwnerOf(k) == ((k - 1) % NumWriters) + 1

\* the n-th key of writer w
NextKey(w, n) ==
    CHOOSE k \in OwnedKeys(w) : Cardinality({j \in OwnedKeys(w) : j < k}) = n

CallsRW(t) ==
    IF t \in Writers
    THEN IF done[t] < Cardinality(OwnedKeys(t))
         THEN {Call("Set", NextKey(t, done[t]), WriterValue(t, NextKey(t, done[t])), 0)}
         ELSE {}
    ELSE IF done[t] < MaxReads
         THEN {Call("Get", k, Zero, 0) : k \in Keys}
         ELSE {}

ConfigsRW ==
    [DefaultTTL : {0, MaxTTL}, MaxSize : {0, Capacity}, EnableMetrics : BOOLEAN]

InitRW == config \in ConfigsRW /\ InitCache /\ InitConc

EnterRW(t) == \E c \in CallsRW(t) : Acquire(t, c)

NextRW ==
    \/ \E t \in Threads : EnterRW(t)
    \/ \E t \in Threads : GetCall(t)
    \/ \E t \in Threads : SetCall(t)
    \/ Advance
    \/ TickerFire
    \/ SweeperWake
    \/ SweeperLock
    \/ SweeperRun

SpecRW == InitRW /\ [][NextRW]_vars

\* ---------------------------------- callers of every operation (C9, C10)
CallsConc(t) ==
    IF done[t] < MaxSteps
    THEN {Call("Get", k, Zero, 0) : k \in Keys}
         \cup {Call("Set", k, t, ttl) : k \in Keys, ttl \in TTLs}
         \cup {Call("Delete", k, Zero, 0) : k \in Keys}
         \cup {Call("Has", k, Zero, 0) : k \in Keys}
         \cup {Call("SetDefaultTTL", NoKey, Zero, ttl) : ttl \in TTLs}
         \cup {Call(op, NoKey, Zero, 0) : op \in {"Clear", "Size", "Keys", "GetMetrics"}}
    ELSE {}

ConfigsConc ==
    [DefaultTTL : {MaxTTL}, MaxSize : {Capacity}, EnableMetrics : BOOLEAN]

InitConcurrent == config \in ConfigsConc /\ InitCache /\ InitConc

EnterConc(t) == \E c \in CallsConc(t) : Acquire(t, c)

NextConc ==
    \/ \E t \in Callers : EnterConc(t)
    \/ \E t \in Callers : GetCall(t)
    \/ \E t \in Callers : SetCall(t)
    \/ \E t \in Callers : DeleteCall(t)
    \/ \E t \in Callers : ClearEntries(t)
    \/ \E t \in Callers : ClearCall(t)
    \/ \E t \in Callers : SizeCall(t)
    \/ \E t \in Callers : KeysCall(t)
    \/ \E t \in Callers : HasCall(t)
    \/ \E t \in Callers : SetDefaultTTLCall(t)
    \/ \E t \in Callers : GetMetricsCall(t)
    \/ Advance
    \/ TickerFire
    \/ SweeperWake
    \/ SweeperLock
    \/ SweeperRun
    \/ SweeperStop
    \/ CloseBegin
    \/ CloseReturn

SpecConc == InitConcurrent /\ [][NextConc]_vars

\* the scheduler runs every goroutine that can run; a Lock is granted once the
\* lock stays free; select picks among its ready cases at random, so a case
\* that is ready again and again is taken
Fairness ==
    /\ \A t \in Callers :
          WF_vars(GetCall(t) \/ SetCall(t) \/ DeleteCall(t)
                    \/ ClearEntries(t) \/ ClearCall(t)
                    \/ SizeCall(t) \/ KeysCall(t) \/ HasCall(t)
                    \/ SetDefaultTTLCall(t) \/ GetMetricsCall(t))
    /\ WF_vars(SweeperLock)
    /\ WF_vars(SweeperRun)
    /\ SF_vars(SweeperStop)
    /\ WF_vars(CloseReturn)

ConfigsClose ==
    [DefaultTTL : {MaxTTL}, MaxSize : {Capacity}, EnableMetrics : {TRUE}]

InitClose == config \in ConfigsClose /\ InitCache /\ InitConc

SpecClose == InitClose /\ [][NextConc]_vars /\ Fairness

\* ------------------------------------------------ the claims, C8 to C10
\* every writer has stored all its keys and no call is in progress
Final ==
    /\ \A t \in Threads : pc[t] = "idle"
    /\ \A w \in Writers : done[w] = Cardinality(OwnedKeys(w))

\* U: the number of distinct keys the writers store
UniqueKeys == Cardinality(UNION { OwnedKeys(w) : w \in Writers })

ExpectedSize ==
    IF config.MaxSize = 0 THEN UniqueKeys ELSE Min(UniqueKeys, config.MaxSize)

ValuesRight ==
    \A k \in IndexedKeys(data) :
        EntryOf(data, lruList, k).Value = WriterValue(OwnerOf(k), k)

\* C8 as stated: whatever the interleaving of the writers' Sets (disjoint
\* keys) and the readers' Gets, the final Size() is min(U, MaxSize) (U when
\* MaxSize = 0), every key present holds its writer's value, and the index
\* and the list correspond throughout.
C8_ConcurrentSafety ==
    /\ C4_IndexListInvariant
    /\ ValuesRight
    /\ Final => Size = ExpectedSize

\* C8 amended: the same, the final Size() being min(U, MaxSize) when no Get
\* and no sweep removed an expired entry during the run.
C8_ConcurrentSafetyNoExpiry ==
    /\ C4_IndexListInvariant
    /\ ValuesRight
    /\ (Final /\ expRemovals = 0) => Size = ExpectedSize

C8_Witness ==
    /\ Final
    /\ expRemovals = 0
    /\ config.MaxSize = Capacity
    /\ Size = Capacity
    /\ \A r \in Readers : done[r] = MaxReads
    /\ metrics.Hits >= 1 /\ metrics.Misses >= 1

\* C9: every step that writes the index, the list, the config or the metrics
\* is taken while mc.mu is held exclusively.
C9_LockDiscipline ==
    [][(data' # data \/ lruList' # lruList \/ config' # config \/ metrics' # metrics)
         => (mu.w # NoThread /\ mu.r = {})]_vars

\* C10: once Close has returned the sweeper has exited and no cleanupExpired
\* pass starts any more; and a Close that was called returns.
C10_ShutdownHandshake ==
    /\ [](closer = "returned" => (sweeper = "exited" /\ cleanupDone /\ ~sweptAfterClose))
    /\ (closer = "waiting" ~> (closer = "returned" /\ sweeper = "exited"))

C10_Witness ==
    /\ closer = "returned"
    /\ sweeper = "exited"
    /\ ret.op = "cleanupExpired" /\ ret.keys # {}
    /\ tick

\* ======================================================= Manager, the calls
\* Every Manager method takes Manager.mu first and releases it when it
\* returns; a thread works on the fields it finds when it gets the lock.
coreVars == <<cacheVars, ret, histVars, now, mu, pc, call, done, stopCleanup,
              cleanupDone, sweeper, tick, closer, local, sweptAfterClose>>
engineVars == <<coreVars, serviceVars>>

\* mutant: a Manager lock that does not wait for the lock to be free
CanManagerLockWhileHeld == TRUE

\* m.mu.Lock() can return
CanManagerLock == managerMu.w = NoThread /\ managerMu.r = {}

\* m.mu.RLock() can return
CanManagerRLock == managerMu.w = NoThread

IsManagerReadOp(op) == op \in {"GetCacheNames", "GetAllMetrics"}

ManagerCall(op, name, T) == [op |-> op, name |-> name, type |-> T]

\* the calls a thread can make on the Manager
ManagerCalls ==
    {ManagerCall(op, n, T) : op \in {"GetOrCreateCache", "GetCache"},
                             n \in Names, T \in ValueTypes}
      \cup {ManagerCall(op, NoCache, "any") : op \in {"GetCacheNames", "GetAllMetrics",
                                                     "Close"}}

\* thread t enters call c: it takes Manager.mu and reads the Manager
ManagerAcquire(t, c) ==
    /\ mpc[t] = "idle"
    /\ nops < MaxManagerOps
    /\ IF IsManagerReadOp(c.op)
       THEN CanManagerRLock /\ managerMu' = [managerMu EXCEPT !.r = @ \cup {t}]
       ELSE CanManagerLock /\ managerMu' = [managerMu EXCEPT !.w = t]
    /\ mpc' = [mpc EXCEPT ![t] = "locked"]
    /\ mcall' = [mcall EXCEPT ![t] = c]
    /\ mlocal' = [mlocal EXCEPT ![t] =
                    [caches |-> caches, configs |-> configs, closed |-> closed,
                     pending |-> {}, current |-> NoCache]]
    /\ nops' = nops + 1
    /\ UNCHANGED <<engineVars, caches, configs, closed, engines, handle, mret,
                   requested, returned, preset>>

\* the Manager as thread t sees it
ManagerView(t) ==
    [caches |-> mlocal[t].caches, configs |-> mlocal[t].configs,
     closed |-> mlocal[t].closed, engines |-> engines]

InstallManager(m) ==
    /\ caches' = m.caches
    /\ configs' = m.configs
    /\ closed' = m.closed
    /\ engines' = m.engines

\* thread t returns from its Manager call: the deferred Unlock / RUnlock
ManagerReturn(t) ==
    /\ managerMu' = [w |-> IF managerMu.w = t THEN NoThread ELSE managerMu.w,
                     r |-> managerMu.r \ {t}]
    /\ mpc' = [mpc EXCEPT ![t] = "idle"]
    /\ mcall' = [mcall EXCEPT ![t] = NoManagerCall]
    /\ mlocal' = [mlocal EXCEPT ![t] = NoManagerLocal]
    /\ UNCHANGED <<engineVars, nops>>

InManager(t, op) == mpc[t] = "locked" /\ mcall[t].op = op

\* what a lookup leaves in the history
Lookup(t, r) ==
    /\ InstallManager(r.m)
    /\ handle' = [handle EXCEPT ![t] = r.handle]
    /\ mret' = MRet(mcall[t].op, mcall[t].name, r.handle, {}, mlocal[t].closed)
    /\ requested' = IF mlocal[t].closed THEN requested
                    ELSE [requested EXCEPT ![mcall[t].name] = @ \cup {mcall[t].type}]
    /\ returned' = IF r.handle.kind = "memory"
                   THEN [returned EXCEPT ![mcall[t].name] = @ \cup {r.handle.id}]
                   ELSE returned
    /\ UNCHANGED preset

GetOrCreateCache(t) ==
    /\ InManager(t, "GetOrCreateCache")
    /\ Lookup(t, GetOrCreateCacheResult(ManagerView(t), mcall[t].name, mcall[t].type))
    /\ ManagerReturn(t)

GetCache(t) ==
    /\ InManager(t, "GetCache")
    /\ Lookup(t, GetCacheResult(ManagerView(t), mcall[t].name, mcall[t].type))
    /\ ManagerReturn(t)

GetCacheNames(t) ==
    /\ InManager(t, "GetCacheNames")
    /\ mret' = MRet("GetCacheNames", NoCache, NoHandle,
                    GetCacheNamesResult(ManagerView(t)), mlocal[t].closed)
    /\ ManagerReturn(t)
    /\ UNCHANGED <<caches, configs, closed, engines, handle, requested, returned, preset>>

GetAllMetrics(t) ==
    LET m == ManagerView(t)
        names == GetAllMetricsResult(m)
        targets == { m.caches[n] : n \in names }
    IN /\ InManager(t, "GetAllMetrics")
       /\ engines' = [e \in DOMAIN engines |->
                        IF e \in targets THEN MemoryGetMetrics(engines[e])
                        ELSE engines[e]]
       /\ mret' = [MRet("GetAllMetrics", NoCache, NoHandle, names, mlocal[t].closed)
                    EXCEPT !.sizes = [n \in Names |->
                                        IF n \in names THEN engines'[m.caches[n]].size
                                        ELSE 0]]
       /\ ManagerReturn(t)
       /\ UNCHANGED <<caches, configs, closed, handle, requested, returned, preset>>

\* Manager.Close on a closed Manager: it returns at once
ManagerCloseAgain(t) ==
    /\ InManager(t, "Close")
    /\ IsClosed(ManagerView(t))
    /\ mret' = MRet("Close", NoCache, NoHandle, {}, TRUE)
    /\ ManagerReturn(t)
    /\ UNCHANGED <<caches, configs, closed, engines, handle, requested, returned, preset>>

\* Manager.Close on an open Manager: it starts the loop over m.caches
ManagerCloseStart(t) ==
    /\ InManager(t, "Close")
    /\ ~IsClosed(ManagerView(t))
    /\ mpc' = [mpc EXCEPT ![t] = "closing"]
    /\ mlocal' = [mlocal EXCEPT ![t].pending =
                    { mlocal[t].caches[n] : n \in GetCacheNamesResult(ManagerView(t)) }]
    /\ UNCHANGED <<engineVars, nops, caches, configs, closed, engines, managerMu,
                   mcall, handle, mret, requested, returned, preset>>

\* the loop calls closeable.Close() on one of the caches (in map order, which
\* is not fixed): MemoryCache.Close closes the engine's stop channel
ManagerCloseEngine(t) ==
    /\ mpc[t] = "closing"
    /\ \E e \in mlocal[t].pending :
          /\ engines' = [engines EXCEPT ![e].stops = @ + 1]
          /\ mlocal' = [mlocal EXCEPT ![t].pending = @ \ {e}, ![t].current = e]
    /\ mpc' = [mpc EXCEPT ![t] = "waiting"]
    /\ UNCHANGED <<engineVars, nops, caches, configs, closed, managerMu, mcall, handle,
                   mret, requested, returned, preset>>

\* the sweeper of engine e takes case <-mc.stopCleanup and exits
EngineSweeperStop(e) ==
    /\ e \in DOMAIN engines
    /\ engines[e].sweeper = "running"
    /\ engines[e].stops > 0
    /\ engines' = [engines EXCEPT ![e].sweeper = "exited"]
    /\ UNCHANGED <<engineVars, nops, caches, configs, closed, managerMu, mpc, mcall,
                   mlocal, handle, mret, requested, returned, preset>>

\* MemoryCache.Close returns to the loop once the sweeper has exited
ManagerCloseJoin(t) ==
    /\ mpc[t] = "waiting"
    /\ engines[mlocal[t].current].sweeper = "exited"
    /\ mpc' = [mpc EXCEPT ![t] = "closing"]
    /\ mlocal' = [mlocal EXCEPT ![t].current = NoCache]
    /\ UNCHANGED <<engineVars, nops, caches, configs, closed, engines, managerMu,
                   mcall, handle, mret, requested, returned, preset>>

\* the loop is over: the maps are replaced, closed is set, Close returns
ManagerCloseFinish(t) ==
    /\ mpc[t] = "closing"
    /\ mlocal[t].pending = {}
    /\ InstallManager(CloseState(ManagerView(t)))
    /\ mret' = MRet("Close", NoCache, NoHandle, {}, FALSE)
    /\ ManagerReturn(t)
    /\ UNCHANGED <<handle, requested, returned, preset>>

\* the operations of a NoOpCache
NoOpOps == {"Get", "Set", "Delete", "Clear", "Size", "Keys", "Has", "GetMetrics"}

\* thread t calls an operation on the no-op cache it holds
NoOpCall(t, op, k) ==
    /\ mpc[t] = "idle"
    /\ handle[t].kind = "noop"
    /\ nops < MaxManagerOps
    /\ nops' = nops + 1
    /\ mret' = [MRet(op, NoCache, handle[t], {}, closed) EXCEPT
                  !.found = IF op = "Get" THEN NoOpGet(k).found
                            ELSE IF op = "Has" THEN NoOpHas(k) ELSE FALSE,
                  !.value = IF op = "Get" THEN NoOpGet(k).value ELSE Zero,
                  !.size = NoOpSize,
                  !.keys = NoOpKeys,
                  !.snap = IF op = "GetMetrics" THEN NoOpGetMetrics(now) ELSE NoSnap]
    /\ UNCHANGED <<engineVars, caches, configs, closed, engines, managerMu, mpc, mcall,
                   mlocal, handle, requested, returned, preset>>

\* ---------------------------------------------- the rest of the Manager
\* SetCacheConfig, the operations of a MemoryCache a handle leads to, and
\* ClearCache and ClearAll, which take the read lock for the lookup only.
CustomConfigs ==
    [DefaultTTL : {60}, MaxSize : {10}, CleanupInterval : {30}, EnableMetrics : BOOLEAN]

\* m.SetCacheConfig(name, config), under the lock
SetCacheConfig(t) ==
    /\ InManager(t, "SetCacheConfig")
    /\ \E cfg \in CustomConfigs :
          /\ InstallManager(SetCacheConfigState(ManagerView(t), mcall[t].name, cfg))
          /\ preset' = IF returned[mcall[t].name] = {} /\ ~mlocal[t].closed
                       THEN [preset EXCEPT ![mcall[t].name] = <<cfg>>]
                       ELSE preset
    /\ mret' = MRet("SetCacheConfig", mcall[t].name, NoHandle, {}, mlocal[t].closed)
    /\ ManagerReturn(t)
    /\ UNCHANGED <<handle, requested, returned>>

MemoryOps == {"Set", "Get", "Size", "GetMetrics"}

\* mutant: an engine that stores nothing once its sweeper was told to stop
SetUnlessStopped(e, k) ==
    IF e.stops > 0 THEN e
    ELSE [e EXCEPT !.keys = @ \cup {k},
                   !.sets = IF e.config.EnableMetrics THEN @ + 1 ELSE @]

\* MemoryCache.Set on engine e: the key is stored, sets counts it when
\* metrics are enabled; the engine has no closed flag to look at
MemorySet(e, k) ==
    [e EXCEPT !.keys = @ \cup {k},
              !.sets = IF e.config.EnableMetrics THEN @ + 1 ELSE @]

\* mutant: a Clear that keeps the counters
ClearKeepsCounters(e) == [e EXCEPT !.keys = {}]

\* MemoryCache.Clear on engine e: no entries, counters back to zero
MemoryClear(e) == [e EXCEPT !.keys = {}, !.sets = 0, !.size = 0]

\* thread t calls an operation on the MemoryCache it holds a handle of
MemoryCall(t, op, k) ==
    /\ mpc[t] = "idle"
    /\ handle[t].kind = "memory"
    /\ nops < MaxRegistryOps
    /\ nops' = nops + 1
    /\ engines' = CASE op = "Set" ->
                         [engines EXCEPT ![handle[t].id] = MemorySet(@, k)]
                    [] op = "GetMetrics" ->
                         [engines EXCEPT ![handle[t].id] = MemoryGetMetrics(@)]
                    [] OTHER -> engines
    /\ mret' = [MRet(op, NoCache, handle[t], {}, closed) EXCEPT
                  !.found = op = "Get" /\ k \in engines[handle[t].id].keys,
                  !.size = IF op = "GetMetrics" THEN engines'[handle[t].id].size
                           ELSE Cardinality(engines'[handle[t].id].keys),
                  !.keys = IF op \in {"Size", "GetMetrics"} THEN {} ELSE {k}]
    /\ UNCHANGED <<engineVars, caches, configs, closed, managerMu, mpc, mcall,
                   mlocal, handle, requested, returned, preset>>

\* the engines ClearCache(name) calls Clear on
ClearCacheTargets(m, name) ==
    IF m.caches[name] = NoCache THEN {} ELSE {m.caches[name]}

\* the engines ClearAll calls Clear on
ClearAllTargets(m) == { m.caches[n] : n \in GetCacheNamesResult(m) }

Cleared(es, targets) ==
    [e \in DOMAIN es |-> IF e \in targets THEN MemoryClear(es[e]) ELSE es[e]]

\* history: the number of entries the engines in targets hold
RECURSIVE EntriesOf(_, _)
EntriesOf(es, targets) ==
    IF targets = {} THEN 0
    ELSE LET e == CHOOSE x \in targets : TRUE
         IN Cardinality(es[e].keys) + EntriesOf(es, targets \ {e})

\* m.ClearCache(name): the lookup under the read lock, then Clear; mret.size
\* is history, the number of entries the call removed
ClearCache(t, name) ==
    /\ mpc[t] = "idle"
    /\ CanManagerRLock
    /\ nops < MaxRegistryOps
    /\ nops' = nops + 1
    /\ engines' = Cleared(engines, ClearCacheTargets(ManagerState, name))
    /\ mret' = [MRet("ClearCache", name, NoHandle, {}, closed) EXCEPT
                  !.size = EntriesOf(engines, ClearCacheTargets(ManagerState, name))]
    /\ UNCHANGED <<engineVars, caches, configs, closed, managerMu, mpc, mcall,
                   mlocal, handle, requested, returned, preset>>

\* m.ClearAll(): the caches are collected under the read lock, then cleared
ClearAll(t) ==
    /\ mpc[t] = "idle"
    /\ CanManagerRLock
    /\ nops < MaxRegistryOps
    /\ nops' = nops + 1
    /\ engines' = Cleared(engines, ClearAllTargets(ManagerState))
    /\ mret' = [MRet("ClearAll", NoCache, NoHandle, {}, closed) EXCEPT
                  !.size = EntriesOf(engines, ClearAllTargets(ManagerState))]
    /\ UNCHANGED <<engineVars, caches, configs, closed, managerMu, mpc, mcall,
                   mlocal, handle, requested, returned, preset>>

\* the calls of the one thread that works on the registry
RegistryCallers == {1}

RegistryCalls ==
    {ManagerCall("GetOrCreateCache", n, T) : n \in Names, T \in {"string", "int"}}
      \cup {ManagerCall("SetCacheConfig", n, "any") : n \in Names}
      \cup {ManagerCall("GetAllMetrics", NoCache, "any")}
      \cup {ManagerCall("Close", NoCache, "any")}

NextRegistry ==
    \/ \E t \in RegistryCallers, c \in RegistryCalls : ManagerAcquire(t, c)
    \/ \E t \in RegistryCallers : GetOrCreateCache(t)
    \/ \E t \in RegistryCallers : SetCacheConfig(t)
    \/ \E t \in RegistryCallers : GetAllMetrics(t)
    \/ \E t \in RegistryCallers : ManagerCloseAgain(t)
    \/ \E t \in RegistryCallers : ManagerCloseStart(t)
    \/ \E t \in RegistryCallers : ManagerCloseEngine(t)
    \/ \E e \in 1..MaxManagerOps : EngineSweeperStop(e)
    \/ \E t \in RegistryCallers : ManagerCloseJoin(t)
    \/ \E t \in RegistryCallers : ManagerCloseFinish(t)
    \/ \E t \in RegistryCallers, op \in MemoryOps, k \in Keys : MemoryCall(t, op, k)
    \/ \E t \in RegistryCallers, n \in Names : ClearCache(t, n)
    \/ \E t \in RegistryCallers : ClearAll(t)

\* the environments of the registry runs
RegistryEnvs ==
    {NoEnv, [NoEnv EXCEPT !.global.ENABLE_METRICS = "false", !.global.MAX_SIZE = "500"]}

InitRegistry ==
    /\ config \in ConfigsClose /\ InitCache /\ InitThreads /\ InitManager
    /\ env \in RegistryEnvs /\ InitClipboard

SpecRegistry == InitRegistry /\ [][NextRegistry]_vars

\* ------------------------------------------------ the clipboard service
\* One call of the service, or of a handler, is one step: r is its result.
ServiceReturn(op, arg, r, id, oldTitle, raised) ==
    /\ nops < MaxServiceOps
    /\ nops' = nops + 1
    /\ db' = r.db
    /\ entries' = r.entries
    /\ wret' = WRet(op, arg, r, id, oldTitle, raised)
    /\ UNCHANGED <<coreVars, managerVars, env, auxVars>>

Missed(key, kind) == ~(CacheGet(entries, key).found /\ CacheGet(entries, key).value.kind = kind)

\* GET /api/clipboard
ServiceGetAll(fail) ==
    ServiceReturn("GetAllClipboards", All, GetAllClipboardsCached(entries, db, fail),
                  NoID, NoTitle,
                  IF Missed(ClipboardCacheKey("list", All), "list")
                  THEN GetAllClipboards(db, fail).err ELSE NoErr)

\* GET /api/clipboard/:id
ServiceGetByID(id, fail) ==
    ServiceReturn("GetClipboardByID", id, GetClipboardByIDCached(entries, db, id, fail),
                  NoID, NoTitle,
                  IF Missed(ClipboardCacheKey("id", id), "clipboard")
                  THEN GetClipboardByID(db, id, fail).err ELSE NoErr)

\* GET /api/clipboard/title/:title
ServiceGetByTitle(title, fail) ==
    ServiceReturn("GetClipboardByTitle", title,
                  GetClipboardByTitleCached(entries, db, title, fail), NoID, NoTitle,
                  IF Missed(ClipboardCacheKey("title", title), "clipboard")
                  THEN GetClipboardByTitle(db, title, fail).err ELSE NoErr)

\* GET /raw/:title
ServiceGetContentByTitle(title, fail) ==
    ServiceReturn("GetClipboardContentByTitle", title,
                  GetClipboardContentByTitleCached(entries, db, title, fail), NoID,
                  NoTitle,
                  IF Missed(ClipboardCacheKey("content", title), "content")
                  THEN GetClipboardByTitle(db, title, fail).err ELSE NoErr)

\* the titles generateRandomID can come up with: those no row has
FreeTitles == { t \in Titles : ~TitleTaken(db, t, NoID) }

\* POST /api/clipboard: NewClipboard(title, content), then the service
ServiceCreate(title, generated, fail) ==
    /\ db.nextID \in Ids
    /\ IF title = NoTitle THEN generated \in FreeTitles ELSE generated = title
    /\ LET clip == Clipboard(NoID, title, db.writes + 1)
           r == CreateClipboardCached(entries, db, clip, generated, fail)
       IN ServiceReturn("CreateClipboard", title, r,
                        IF r.err = NoErr THEN r.value.clip.ID ELSE NoID, NoTitle,
                        CreateClipboard(db, clip, generated, fail).err)

\* s.UpdateClipboard of an entity that has a row
ServiceUpdate(id, title, failLookup, fail) ==
    /\ Exists(db, id)
    /\ LET clip == Clipboard(id, title, db.writes + 1)
       IN ServiceReturn("UpdateClipboard", title,
                        UpdateClipboardCached(entries, db, clip, failLookup, fail),
                        id, db.rows[id].Title, UpdateClipboard(db, clip, fail).err)

\* s.DeleteClipboard of an entity, with the title the caller filled in
ServiceDelete(id, title, fail) ==
    LET clip == Clipboard(id, title, 0)
    IN ServiceReturn("DeleteClipboard", title,
                     DeleteClipboardCached(entries, db, clip, fail),
                     id, db.rows[id].Title, DeleteClipboard(db, clip, fail).err)

\* PUT /api/clipboard/:id
HandlePut(id, title, failLookup, fail) ==
    ServiceReturn("PUT", title,
                  HandleUpdateClipboard(entries, db, id, title, failLookup, fail),
                  id, db.rows[id].Title,
                  IF GetClipboardByID(db, id, failLookup).err # NoErr
                  THEN GetClipboardByID(db, id, failLookup).err
                  ELSE UpdateClipboard(db, [RowOf(db, id) EXCEPT
                                              !.Title = IF title # NoTitle THEN title
                                                        ELSE @], fail).err)

\* DELETE /api/clipboard/:id
HandleDelete(id, failLookup, fail) ==
    ServiceReturn("DELETE", NoTitle,
                  HandleDeleteClipboard(entries, db, id, failLookup, fail),
                  id, db.rows[id].Title,
                  IF GetClipboardByID(db, id, failLookup).err # NoErr
                  THEN GetClipboardByID(db, id, failLookup).err
                  ELSE IF fail THEN ErrDB ELSE NoErr)

\* the entry under key expires, or is evicted for room
Lapse(key) ==
    /\ entries[key] # NoValue
    /\ entries' = CacheDelete(entries, key)
    /\ UNCHANGED <<coreVars, managerVars, env, nops, db, wret, auxVars>>

AnyTitle == Titles \cup {NoTitle}

NextService ==
    \/ \E fail \in BOOLEAN : ServiceGetAll(fail)
    \/ \E id \in Ids, fail \in BOOLEAN : ServiceGetByID(id, fail)
    \/ \E title \in Titles, fail \in BOOLEAN : ServiceGetByTitle(title, fail)
    \/ \E title \in Titles, fail \in BOOLEAN : ServiceGetContentByTitle(title, fail)
    \/ \E title \in AnyTitle, generated \in Titles, fail \in BOOLEAN :
          ServiceCreate(title, generated, fail)
    \/ \E id \in Ids, title \in AnyTitle, failLookup, fail \in BOOLEAN :
          ServiceUpdate(id, title, failLookup, fail)
    \/ \E id \in Ids, title \in AnyTitle, fail \in BOOLEAN :
          ServiceDelete(id, title, fail)
    \/ \E id \in Ids, title \in AnyTitle, failLookup, fail \in BOOLEAN :
          HandlePut(id, title, failLookup, fail)
    \/ \E id \in Ids, failLookup, fail \in BOOLEAN : HandleDelete(id, failLookup, fail)
    \/ \E key \in CacheKeys : Lapse(key)

SpecService == InitClose /\ [][NextService]_vars

\* ------------------------------------------- configs from the environment
\* The environment is drawn at the start; one thread registers configs and
\* looks caches up, all with the same value type.
ConfigEnvs ==
    [global : [DEFAULT_TTL : {"", "2h", "90", "abc"},
               MAX_SIZE : {"", "500", "0"},
               CLEANUP_INTERVAL : {"", "10m"},
               ENABLE_METRICS : {"", "false", "yes"}],
     named : [TTL : {"", "1800", "abc"},
              MAX_SIZE : {"", "200", "0"},
              CLEANUP_INTERVAL : {"", "60"},
              ENABLE_METRICS : {"", "false"}],
     name : {1}]

ConfigCalls ==
    {ManagerCall("GetOrCreateCache", n, "any") : n \in Names}
      \cup {ManagerCall("SetCacheConfig", n, "any") : n \in Names}

NextConfig ==
    \/ \E t \in RegistryCallers, c \in ConfigCalls :
          nops < MaxConfigOps /\ ManagerAcquire(t, c)
    \/ \E t \in RegistryCallers : GetOrCreateCache(t)
    \/ \E t \in RegistryCallers : SetCacheConfig(t)

InitConfig ==
    /\ config \in ConfigsClose /\ InitCache /\ InitThreads /\ InitManager
    /\ env \in ConfigEnvs /\ InitClipboard

SpecConfig == InitConfig /\ [][NextConfig]_vars

NextManager ==
    \/ \E t \in Callers, c \in ManagerCalls : ManagerAcquire(t, c)
    \/ \E t \in Callers : GetOrCreateCache(t)
    \/ \E t \in Callers : GetCache(t)
    \/ \E t \in Callers : GetCacheNames(t)
    \/ \E t \in Callers : GetAllMetrics(t)
    \/ \E t \in Callers : ManagerCloseAgain(t)
    \/ \E t \in Callers : ManagerCloseStart(t)
    \/ \E t \in Callers : ManagerCloseEngine(t)
    \/ \E e \in 1..MaxManagerOps : EngineSweeperStop(e)
    \/ \E t \in Callers : ManagerCloseJoin(t)
    \/ \E t \in Callers : ManagerCloseFinish(t)
    \/ \E t \in Callers, op \in NoOpOps, k \in Keys : NoOpCall(t, op, k)

SpecManager == InitClose /\ [][NextManager]_vars

\* ---------------------------------------------- the claims, C11 to C15
\* the nodes a sweep at time t has to keep, in their order: those without
\* expiry and those whose expiry time is not earlier than t
Survivors(l, t) ==
    SelectSeq(l, LAMBDA el : el.entry.ExpiresAt = ZeroTime \/ el.entry.ExpiresAt >= t)

\* this step is a complete cleanupExpired pass
IsSweep ==
    \/ IsCall("cleanupExpired")
    \/ sweeper = "locked" /\ sweeper' = "select"

\* what C11 says of a sweep pass, but for the evictions counter
SweepEffect ==
    /\ lruList' = Survivors(lruList, now)
    /\ IndexedKeys(data') = { lruList'[i].key : i \in 1..Len(lruList') }
    /\ \A k \in IndexedKeys(data') : data'[k] = data[k]

\* C11 as stated: a sweep pass removes exactly the entries whose expiry time is
\* set and earlier than the sweep time, keeps the others with their values and
\* their order, and adds the number of removed entries to evictions.
C11_SweepCountsEvictions ==
    [][IsSweep =>
         /\ SweepEffect
         /\ metrics'.Evictions = metrics.Evictions + (Len(lruList) - Len(lruList'))]_vars

\* C11 amended: the same, evictions growing by the number of removed entries
\* when metrics are enabled and no counter changing when they are disabled.
C11_SweepFrame ==
    [][IsSweep =>
         /\ SweepEffect
         /\ config.EnableMetrics =>
               metrics' = [metrics EXCEPT
                             !.Evictions = @ + (Len(lruList) - Len(lruList'))]
         /\ ~config.EnableMetrics => metrics' = metrics]_vars

\* a pass that removed one expired entry and kept two that expire right now
C11_Witness ==
    /\ ret.op = "cleanupExpired"
    /\ Cardinality(ret.keys) = 1
    /\ Len(lruList) = 2
    /\ \A i \in 1..Len(lruList) : lruList[i].entry.ExpiresAt = now
    /\ config.EnableMetrics
    /\ metrics.Evictions = 1

\* what C12 says of a Delete, but for the deletes counter
DeleteEffect(k) ==
    /\ data[k] = Nil => (data' = data /\ lruList' = lruList)
    /\ data[k] # Nil =>
          /\ IndexedKeys(data') = IndexedKeys(data) \ {k}
          /\ \A x \in Keys \ {k} : data'[x] = data[x]
          /\ lruList' = ListWithoutKey(lruList, k)
    /\ metrics'.Evictions = metrics.Evictions

IsDelete(k) == IsCall("Delete") /\ ret'.key = k

\* C12 as stated: Delete of an absent key changes nothing; Delete of a present
\* key removes exactly that key, adds one to deletes and none to evictions.
C12_DeleteCountsDelete ==
    [][\A k \in Keys :
         IsDelete(k) =>
            /\ DeleteEffect(k)
            /\ data[k] = Nil => metrics'.Deletes = metrics.Deletes
            /\ data[k] # Nil => metrics'.Deletes = metrics.Deletes + 1]_vars

\* C12 amended: the same, deletes growing by one for a present key when
\* metrics are enabled and no counter changing when they are disabled.
C12_Delete ==
    [][\A k \in Keys :
         IsDelete(k) =>
            /\ DeleteEffect(k)
            /\ data[k] = Nil => metrics' = metrics
            /\ (data[k] # Nil /\ config.EnableMetrics) =>
                  metrics' = [metrics EXCEPT !.Deletes = @ + 1]
            /\ ~config.EnableMetrics => metrics' = metrics]_vars

C12_Witness ==
    /\ ret.op = "Delete"
    /\ data[ret.key] = Nil
    /\ \E i \in 1..Len(touchOrder) : touchOrder[i] = ret.key
    /\ Len(lruList) = 2
    /\ config.EnableMetrics
    /\ metrics.Deletes = 1 /\ metrics.Sets = 3 /\ metrics.Evictions = 0

\* the cache state after the step
CacheStateNext == [data |-> data', lruList |-> lruList', metrics |-> metrics']

\* C13: when Clear returns the cache is empty (Size() = 0, Has and Get report
\* every key absent) and hits, misses, sets, deletes and evictions are 0; and
\* while a Clear is between removing the entries and resetting the counters no
\* other operation and no sweep is inside the lock.
C13_ClearAtomic ==
    /\ [][\A t \in Callers :
             (pc[t] = "clearing" /\ pc'[t] = "idle") =>
                /\ Cardinality(IndexedKeys(data')) = 0
                /\ lruList' = <<>>
                /\ \A k \in Keys :
                      /\ ~HasResult(CacheStateNext, k, now)
                      /\ ~GetResult(CacheStateNext, config, k, now).found
                /\ metrics'.Hits = 0 /\ metrics'.Misses = 0 /\ metrics'.Sets = 0
                /\ metrics'.Deletes = 0 /\ metrics'.Evictions = 0]_vars
    /\ [](\A t \in Callers :
             pc[t] = "clearing" =>
                /\ \A u \in Callers \ {t} : pc[u] = "idle"
                /\ sweeper # "locked")

C13_Witness ==
    /\ ret.op = "Clear"
    /\ touchOrder # <<>>
    /\ Size = 0
    /\ config.EnableMetrics
    /\ metrics.Sets = 0
    /\ \A t \in Callers : done[t] = MaxSteps

\* C14: Has(k) returns what Get(k) would return as found in the same state,
\* and changes neither the entries, nor their order, nor the metrics.
C14_HasIsGetFound ==
    [][\A k \in Keys :
         (IsCall("Has") /\ ret'.key = k) =>
            /\ ret'.found = GetResult(CacheState, config, k, now).found
            /\ UNCHANGED <<data, lruList, metrics, config>>]_vars

\* Has on an expired entry that is still counted by Size() and Keys()
C14_Witness ==
    /\ ret.op = "Has" /\ ~ret.found
    /\ data[ret.key] # Nil
    /\ IsExpired(EntryOf(data, lruList, ret.key), now)
    /\ ret.key \in IndexedKeys(data)
    /\ Size = 2

\* the hit rate of a snapshot is H / (H + M), or 0 when H + M = 0
RateIs(rate, h, m) ==
    IF h + m > 0 THEN rate.num * (h + m) = h * rate.den ELSE rate.num = 0

\* C15 as stated: every GetMetrics() snapshot taken after H Get hits and M Get
\* misses since the last reset has HitRate * (H + M) = H, and HitRate = 0 when
\* H + M = 0.
C15_HitRateOfSnapshot ==
    ret.op = "GetMetrics" => RateIs(ret.snap.HitRate, getHits, getMisses)

\* C15 amended: the same for a cache with metrics enabled; with metrics
\* disabled the snapshot's HitRate is 0.
C15_HitRate ==
    ret.op = "GetMetrics" =>
        IF config.EnableMetrics
        THEN RateIs(ret.snap.HitRate, getHits, getMisses)
        ELSE ret.snap.HitRate.num = 0

C15_Witness ==
    /\ ret.op = "GetMetrics"
    /\ config.EnableMetrics
    /\ getHits = 1 /\ getMisses = 1
    /\ ret.snap.HitRate = [num |-> 1, den |-> 2]

\* ---------------------------------------------- the claims, C16 to C20
\* the engines constructed for name n
EnginesOf(n) == { e \in DOMAIN engines : engines[e].name = n }

\* thread t completes a lookup (GetOrCreateCache or GetCache) of name n
IsLookup(t, n) ==
    /\ mpc[t] = "locked" /\ mpc'[t] = "idle"
    /\ mcall[t].op \in {"GetOrCreateCache", "GetCache"}
    /\ mcall[t].name = n

\* C16: as long as every lookup of a name on the open Manager asked for the
\* same value type, whatever the interleaving of the callers, one MemoryCache
\* (one sweeper) exists for the name and every call got that instance.
C16_SingleInstance ==
    \A n \in Names :
        Cardinality(requested[n]) <= 1 =>
            /\ Cardinality(EnginesOf(n)) <= 1
            /\ returned[n] \subseteq EnginesOf(n)
            /\ requested[n] # {} => Cardinality(returned[n]) = 1

\* both callers asked for the same name and type and hold the same engine
C16_Witness ==
    /\ \E n \in Names :
          /\ requested[n] = {"string"}
          /\ returned[n] = {1}
          /\ \A n2 \in Names \ {n} : requested[n2] = {}
    /\ \A t \in Callers : handle[t] = MemoryHandle(1)
    /\ mret.op = "GetOrCreateCache"
    /\ Len(engines) = 1
    /\ nops = NumCallers

\* C17: while the Manager is open an engine registered under a name stays
\* registered under it, and every lookup of the name, whatever the value type
\* asked for, returns that engine.
C17_RegistryEntriesStable ==
    [][\A n \in Names :
         (caches[n] # NoCache /\ ~closed) =>
            /\ ~closed' => caches'[n] = caches[n]
            /\ \A t \in Callers :
                  IsLookup(t, n) => mret'.handle = MemoryHandle(caches[n])]_vars

\* C18: once Manager.Close has returned, the sweeper of every MemoryCache the
\* Manager constructed has exited.
C18_CloseStopsAllSweepers ==
    closed => \A e \in DOMAIN engines : engines[e].sweeper = "exited"

\* the results a no-op cache gives
NoOpResults ==
    (mret.handle.kind = "noop" /\ mret.op \in NoOpOps) =>
        /\ ~mret.found /\ mret.value = Zero
        /\ mret.size = 0 /\ mret.keys = {}
        /\ mret.snap.Hits = 0 /\ mret.snap.Misses = 0 /\ mret.snap.Sets = 0
        /\ mret.snap.Deletes = 0 /\ mret.snap.Evictions = 0

\* C19: a closed Manager stays closed, its cache map stays empty
\* (GetCacheNames and GetAllMetrics return nothing), every lookup returns a
\* no-op cache and constructs no engine, and a no-op cache reports every key
\* absent, size 0, no keys and counters at 0.
C19_ClosedIsPermanent ==
    /\ [][closed =>
             /\ closed'
             /\ engines' = engines
             /\ \A t \in Callers, n \in Names :
                   IsLookup(t, n) => mret'.handle = NewNoOpCache]_vars
    /\ [](closed => \A n \in Names : caches[n] = NoCache)
    /\ []((mret.op \in {"GetCacheNames", "GetAllMetrics"} /\ mret.wasClosed)
            => mret.names = {})
    /\ []NoOpResults

\* an engine was closed with the Manager, then a lookup gave a no-op cache and
\* a Get on it found nothing
C19_Witness ==
    /\ closed
    /\ Len(engines) = 1
    /\ engines[1].sweeper = "exited"
    /\ mret.op = "Get" /\ mret.handle = NewNoOpCache /\ ~mret.found
    /\ \E t \in Callers : handle[t] = NewNoOpCache

\* C20: a Close on a closed Manager returns without changing the Manager and
\* without closing any engine, so no engine's stop channel is closed twice.
C20_CloseIdempotent ==
    /\ [][\A t \in Callers :
             (mpc[t] = "locked" /\ mcall[t].op = "Close" /\ closed /\ mpc'[t] # mpc[t])
               => /\ mpc'[t] = "idle"
                  /\ UNCHANGED <<caches, configs, closed, engines>>]_vars
    /\ [](\A e \in DOMAIN engines : engines[e].stops <= 1)

C20_Witness ==
    /\ mret.op = "Close" /\ mret.wasClosed
    /\ closed
    /\ Len(engines) = 2
    /\ \A e \in DOMAIN engines : engines[e].stops = 1 /\ engines[e].sweeper = "exited"

\* ---------------------------------------------- the claims, C21 to C30
\* this step is the call op on a MemoryCache through a handle
IsMemoryCall(op) ==
    /\ nops' # nops /\ mpc' = mpc
    /\ mret'.op = op /\ mret'.handle.kind = "memory"

\* C21 as stated: after Manager.Close, a call through a handle obtained from
\* the Manager before Close behaves as on a no-op cache: Set stores nothing and
\* Get reports not found.
C21_UseAfterCloseIsNoOp ==
    /\ [][(closed /\ IsMemoryCall("Set")) => engines' = engines]_vars
    /\ [][(closed /\ IsMemoryCall("Get")) => ~mret'.found]_vars

\* C21 amended: after Manager.Close, a call through a handle obtained before
\* Close raises no error and works on the engine as before: Set stores the key
\* in that engine and in no other, Get changes no engine and finds exactly the
\* keys stored, and Size counts them.
C21_UseAfterCloseIsLive ==
    /\ [][(closed /\ IsMemoryCall("Set")) =>
             LET e == mret'.handle.id
             IN /\ engines'[e].keys = engines[e].keys \cup mret'.keys
                /\ \A x \in DOMAIN engines \ {e} : engines'[x] = engines[x]]_vars
    /\ [][(closed /\ IsMemoryCall("Get")) =>
             /\ engines' = engines
             /\ mret'.found <=> mret'.keys \subseteq engines[mret'.handle.id].keys]_vars
    /\ [](mret.handle.kind = "memory" /\ mret.op \in MemoryOps \ {"GetMetrics"}
            => mret.size = Cardinality(engines[mret.handle.id].keys))

\* the Manager was closed and the sweeper of the engine has exited; a Set
\* through the handle stored a key and a Get found it
C21_Witness ==
    /\ closed
    /\ mret.op = "Get" /\ mret.handle.kind = "memory" /\ mret.found
    /\ engines[mret.handle.id].sweeper = "exited"
    /\ engines[mret.handle.id].keys = mret.keys
    /\ \A n \in Names : caches[n] = NoCache

\* the first engine constructed for the name
FirstEngine(n) == CHOOSE e \in DOMAIN engines :
                    /\ engines[e].name = n
                    /\ \A x \in DOMAIN engines : engines[x].name = n => e <= x

\* C29: the engine created first for a name uses the config SetCacheConfig
\* registered for the name before, and while the Manager is open the config of
\* the instance lookups of a name return never changes, whatever SetCacheConfig
\* is called with after that instance exists.
C29_ConfigFixedAtFirstCreation ==
    /\ [](\A n \in Names :
            (preset[n] # NoConfig /\ returned[n] # {})
              => engines[FirstEngine(n)].config = preset[n][1])
    /\ [][\A n \in Names :
             (~closed /\ ~closed' /\ caches[n] # NoCache)
               => /\ caches'[n] # NoCache
                  /\ engines'[caches'[n]].config = engines[caches[n]].config]_vars

\* what C29 says of the first creation alone
C29_PresetUsed ==
    \A n \in Names :
       (preset[n] # NoConfig /\ returned[n] # {})
         => engines[FirstEngine(n)].config = preset[n][1]

\* this step is the Manager call op that takes the read lock for its lookup
IsClearCall(op) == nops' # nops /\ mpc' = mpc /\ mret'.op = op

\* C30: ClearCache(name) leaves the instance registered under name without
\* entries and with its counters at zero and changes no other instance; for a
\* name that is not registered it changes nothing; ClearAll leaves every
\* registered instance with Size 0; neither changes the registered names.
C30_ClearFrame ==
    /\ [][IsClearCall("ClearCache") =>
             LET n == mret'.name
             IN /\ caches' = caches
                /\ DOMAIN engines' = DOMAIN engines
                /\ caches[n] = NoCache => engines' = engines
                /\ caches[n] # NoCache =>
                      /\ engines'[caches[n]].keys = {}
                      /\ engines'[caches[n]].sets = 0
                      /\ \A e \in DOMAIN engines \ {caches[n]} :
                            engines'[e] = engines[e]]_vars
    /\ [][IsClearCall("ClearAll") =>
             /\ caches' = caches
             /\ \A n \in Names :
                   caches[n] # NoCache => Cardinality(engines'[caches'[n]].keys) = 0]_vars

\* two names are registered; ClearCache of one removed its entry and reset its
\* counter, the instance of the other name keeps its entry and its counter
C30_Witness ==
    /\ mret.op = "ClearCache" /\ mret.size = 1
    /\ \A n \in Names : caches[n] # NoCache
    /\ engines[caches[mret.name]].config.EnableMetrics
    /\ engines[caches[mret.name]].keys = {} /\ engines[caches[mret.name]].sets = 0
    /\ \E n \in Names \ {mret.name} :
          engines[caches[n]].keys # {} /\ engines[caches[n]].sets = 1

\* ClearAll removed the entries of two registered instances
C30_WitnessAll ==
    /\ mret.op = "ClearAll" /\ mret.size = 2
    /\ \A n \in Names : caches[n] # NoCache /\ engines[caches[n]].keys = {}

\* ------------------------------------------------------------ C27, C28
\* What a setting denotes when it is valid: a duration or a number of seconds
\* for the two intervals, a positive number for the size, a truth value for
\* the metrics switch.
IsDurationText(s) == s \in {"2h", "10m", "1800", "90", "60"}
IsSizeText(s) == s \in {"500", "200"}
IsBoolText(s) == s \in {"true", "1", "false"}

Denotes(s) ==
    CASE s = "2h" -> 7200
      [] s = "10m" -> 600
      [] s = "1800" -> 1800
      [] s = "90" -> 90
      [] s = "60" -> 60
      [] s = "500" -> 500
      [] s = "200" -> 200
      [] OTHER -> 0

\* the text prefixed with the name n, and the global text
NamedText(n, knob) == IF n = env.name THEN env.named[knob] ELSE ""
GlobalText(knob) == env.global[knob]

\* the name-prefixed setting if valid, else the global one if valid, else def
Preferred(namedOk, named, globalOk, global, def) ==
    IF namedOk THEN named ELSE IF globalOk THEN global ELSE def

\* the config of C27 for a name without a registered config
ResolvedAllKnobs(n) ==
    [DefaultTTL |->
        Preferred(IsDurationText(NamedText(n, "TTL")), Denotes(NamedText(n, "TTL")),
                  IsDurationText(GlobalText("DEFAULT_TTL")),
                  Denotes(GlobalText("DEFAULT_TTL")), 3600),
     MaxSize |->
        Preferred(IsSizeText(NamedText(n, "MAX_SIZE")), Denotes(NamedText(n, "MAX_SIZE")),
                  IsSizeText(GlobalText("MAX_SIZE")), Denotes(GlobalText("MAX_SIZE")),
                  1000),
     CleanupInterval |->
        Preferred(IsDurationText(NamedText(n, "CLEANUP_INTERVAL")),
                  Denotes(NamedText(n, "CLEANUP_INTERVAL")),
                  IsDurationText(GlobalText("CLEANUP_INTERVAL")),
                  Denotes(GlobalText("CLEANUP_INTERVAL")), 300),
     EnableMetrics |->
        Preferred(IsBoolText(NamedText(n, "ENABLE_METRICS")),
                  NamedText(n, "ENABLE_METRICS") \in {"true", "1"},
                  IsBoolText(GlobalText("ENABLE_METRICS")),
                  GlobalText("ENABLE_METRICS") \in {"true", "1"}, TRUE)]

\* the same, with the name-prefixed settings of the TTL and the size only, and
\* with every global text but "true" and "1" disabling the metrics
ResolvedTwoKnobs(n) ==
    [ResolvedAllKnobs(n) EXCEPT
       !.CleanupInterval =
          Preferred(FALSE, 0, IsDurationText(GlobalText("CLEANUP_INTERVAL")),
                    Denotes(GlobalText("CLEANUP_INTERVAL")), 300),
       !.EnableMetrics =
          Preferred(FALSE, FALSE, GlobalText("ENABLE_METRICS") # "",
                    GlobalText("ENABLE_METRICS") \in {"true", "1"}, TRUE)]

\* every engine has the config registered before the first creation of its
\* name, else the config resolved(name)
UsesConfig(resolved(_)) ==
    \A e \in DOMAIN engines :
       engines[e].config = IF preset[engines[e].name] # NoConfig
                           THEN preset[engines[e].name][1]
                           ELSE resolved(engines[e].name)

\* C27 as stated: the config of a named cache is the one SetCacheConfig
\* registered before its first creation, else, field by field for the four
\* fields, the valid name-prefixed setting, else the valid global setting, else
\* the default (3600 s, 1000 entries, 300 s, metrics enabled).
C27_ResolutionOrder == UsesConfig(ResolvedAllKnobs)

\* C27 amended: the same for the TTL and the size; the cleanup interval is the
\* valid global setting, else the default; metrics are enabled when the global
\* setting is unset, "true" or "1" and disabled by any other text.
C27_ResolutionOrderTwoKnobs == UsesConfig(ResolvedTwoKnobs)

\* a cache resolved from an environment where the name-prefixed TTL and the
\* global size are invalid, and a second cache with a registered config
C27_Witness ==
    /\ env.named.TTL = "abc" /\ env.global.DEFAULT_TTL = "90"
    /\ env.named.MAX_SIZE = "200" /\ env.global.MAX_SIZE = "0"
    /\ env.global.CLEANUP_INTERVAL = "10m" /\ env.global.ENABLE_METRICS = "yes"
    /\ Len(engines) = 2
    /\ engines[1].name = env.name /\ preset[engines[1].name] = NoConfig
    /\ engines[1].config = [DefaultTTL |-> 90, MaxSize |-> 200,
                            CleanupInterval |-> 600, EnableMetrics |-> FALSE]
    /\ preset[engines[2].name] # NoConfig
    /\ engines[2].config \in CustomConfigs

\* the engines whose config was resolved from the environment
Resolved == { e \in DOMAIN engines : preset[engines[e].name] = NoConfig }

\* C28 as stated: for each of the four knobs, a valid setting prefixed with
\* the cache's name is the one in the config resolved for that cache.
C28_OverridesAllKnobs ==
    \A e \in Resolved :
       LET n == engines[e].name
       IN /\ IsDurationText(NamedText(n, "TTL"))
               => engines[e].config.DefaultTTL = Denotes(NamedText(n, "TTL"))
          /\ IsSizeText(NamedText(n, "MAX_SIZE"))
               => engines[e].config.MaxSize = Denotes(NamedText(n, "MAX_SIZE"))
          /\ IsDurationText(NamedText(n, "CLEANUP_INTERVAL"))
               => engines[e].config.CleanupInterval
                    = Denotes(NamedText(n, "CLEANUP_INTERVAL"))
          /\ IsBoolText(NamedText(n, "ENABLE_METRICS"))
               => engines[e].config.EnableMetrics
                    = (NamedText(n, "ENABLE_METRICS") \in {"true", "1"})

\* C28 amended: a valid name-prefixed setting of the TTL or of the size is the
\* one in the config resolved for that cache; a name-prefixed setting of the
\* cleanup interval or of the metrics switch changes nothing.
C28_OverridesTwoKnobs ==
    \A e \in Resolved :
       LET n == engines[e].name
       IN /\ IsDurationText(NamedText(n, "TTL"))
               => engines[e].config.DefaultTTL = Denotes(NamedText(n, "TTL"))
          /\ IsSizeText(NamedText(n, "MAX_SIZE"))
               => engines[e].config.MaxSize = Denotes(NamedText(n, "MAX_SIZE"))
          /\ engines[e].config.CleanupInterval = GlobalConfigFromEnv.CleanupInterval
          /\ engines[e].config.EnableMetrics = GlobalConfigFromEnv.EnableMetrics

\* both name-prefixed settings won over valid global ones, and the
\* name-prefixed cleanup interval and metrics switch were not read
C28_Witness ==
    /\ env.named.TTL = "1800" /\ env.global.DEFAULT_TTL = "2h"
    /\ env.named.MAX_SIZE = "200" /\ env.global.MAX_SIZE = "500"
    /\ env.named.CLEANUP_INTERVAL = "60" /\ env.named.ENABLE_METRICS = "false"
    /\ env.global.CLEANUP_INTERVAL = "" /\ env.global.ENABLE_METRICS = ""
    /\ \E e \in Resolved :
          /\ engines[e].name = env.name
          /\ engines[e].config = [DefaultTTL |-> 1800, MaxSize |-> 200,
                                  CleanupInterval |-> 300, EnableMetrics |-> TRUE]

\* ---------------------------------------------------------- C22 to C26
ReadOps ==
    {"GetAllClipboards", "GetClipboardByID", "GetClipboardByTitle",
     "GetClipboardContentByTitle"}
WriteOps == {"CreateClipboard", "UpdateClipboard", "DeleteClipboard"}
HandlerWrites == {"CreateClipboard", "PUT", "DELETE"}

\* this step is a call of the service, or of a handler, in ops
IsServiceCall(ops) == nops' # nops /\ wret'.op \in ops

\* the keys that index the entity id, whose title was oldTitle and is newTitle
IndexKeys(id, oldTitle, newTitle) ==
    {ClipboardCacheKey("list", All), ClipboardCacheKey("id", id)}
      \cup {ClipboardCacheKey(o, t) : o \in {"title", "content"},
                                      t \in {oldTitle, newTitle} \ {NoTitle}}

\* no key of the entity of the last write holds a value from before that write
NothingPredatesWrite ==
    \A k \in IndexKeys(wret.id, wret.oldTitle, wret.newTitle) :
       entries[k] = NoValue \/ entries[k].asOf >= wret.asOf

\* C22: after CreateClipboard, UpdateClipboard or DeleteClipboard of the
\* service returned nil for an entity, the cache holds no value from before the
\* write under the id key, the title and content keys of the titles the entity
\* had and has in the table, and the list key.
C22_InvalidationComplete ==
    (wret.op \in WriteOps /\ wret.err = NoErr) => NothingPredatesWrite

\* C23: after UpdateClipboard succeeded for an entity whose title changed from
\* A to B, the cache holds nothing under the title key of A, under the title
\* key of B and under the id key, so each of the three reads misses.
C23_RenameMisses ==
    (/\ wret.op = "UpdateClipboard" /\ wret.err = NoErr
     /\ wret.oldTitle # NoTitle /\ wret.newTitle # NoTitle
     /\ wret.oldTitle # wret.newTitle)
      => /\ entries[ClipboardCacheKey("title", wret.oldTitle)] = NoValue
         /\ entries[ClipboardCacheKey("title", wret.newTitle)] = NoValue
         /\ entries[ClipboardCacheKey("id", wret.id)] = NoValue

\* the part of C23 about the old title alone
C23_OldTitleMisses ==
    (/\ wret.op = "UpdateClipboard" /\ wret.err = NoErr
     /\ wret.oldTitle # NoTitle /\ wret.newTitle # NoTitle
     /\ wret.oldTitle # wret.newTitle)
      => entries[ClipboardCacheKey("title", wret.oldTitle)] = NoValue

\* C24: after the POST, PUT or DELETE handler succeeded for an entry, the
\* cache holds no value from before that write under the keys the GET handlers
\* of that entry read, so no GET returns data cached before the write.
C24_HandlersInvalidate ==
    (wret.op \in HandlerWrites /\ wret.err = NoErr) => NothingPredatesWrite

ReadKey(op, arg) ==
    ClipboardCacheKey(CASE op = "GetAllClipboards" -> "list"
                        [] op = "GetClipboardByID" -> "id"
                        [] op = "GetClipboardByTitle" -> "title"
                        [] OTHER -> "content", arg)

\* v is what the table holds for the read op of arg
IsStored(op, arg, v) ==
    CASE op = "GetAllClipboards" -> v.list = db.rows
      [] op = "GetClipboardByID" -> Exists(db, arg) /\ v.clip = RowOf(db, arg)
      [] op = "GetClipboardByTitle" ->
            /\ v.clip.ID \in Ids /\ Exists(db, v.clip.ID)
            /\ v.clip = RowOf(db, v.clip.ID) /\ v.clip.Title = arg
      [] OTHER -> \E i \in Ids : /\ Exists(db, i) /\ db.rows[i].Title = arg
                                  /\ v.clip.Content = db.rows[i].Content

\* C26: a read that misses the cache and gets no error calls the store once,
\* stores what the store holds under the key of its parameter, changes no other
\* key, and returns it; a read that finds a value under its key returns that
\* value without calling the store and changes nothing.
C26_ReadThrough ==
    [][IsServiceCall(ReadOps) =>
         LET k == ReadKey(wret'.op, wret'.arg)
         IN /\ (entries[k] = NoValue /\ wret'.err = NoErr) =>
                  /\ ~wret'.hit /\ wret'.calls = 1
                  /\ IsStored(wret'.op, wret'.arg, wret'.value)
                  /\ entries' = [entries EXCEPT ![k] = wret'.value]
            /\ entries[k] # NoValue =>
                  /\ wret'.hit /\ wret'.calls = 0 /\ wret'.err = NoErr
                  /\ wret'.value = entries[k]
                  /\ entries' = entries
            /\ db' = db]_vars

\* the list was read twice: the second read is a hit that returns the rows
C26_Witness ==
    /\ wret.op = "GetAllClipboards" /\ wret.hit /\ wret.calls = 0
    /\ \E i \in Ids : wret.value.list[i] # NoRow
    /\ wret.value.list = db.rows

\* ------------------------------------------- the claims C31 to C39
\* the key of the node at the tail of the recency list
TailKey(l) == l[Len(l)].key

\* C35: a Set removes at most one other entry, and only when it inserts a
\* new key into a cache that already holds MaxSize entries; the entry removed
\* is the tail of the recency list, never the key just set; a Set on a key
\* already present leaves the size unchanged and removes nothing.
C35_SetEvictsTail ==
    [][\A k \in Keys :
         (IsCall("Set") /\ ret'.key = k) =>
           LET before == IndexedKeys(data)
               after == IndexedKeys(data')
               gone == before \ after
               full == config.MaxSize > 0 /\ Cardinality(before) = config.MaxSize
           IN /\ Cardinality(gone) <= 1
              /\ k \in after
              /\ after = (before \cup {k}) \ gone
              /\ gone # {} <=> (data[k] = Nil /\ full)
              /\ gone # {} => gone = {TailKey(lruList)}
              /\ data[k] # Nil => Cardinality(after) = Cardinality(before)]_vars

\* a Set has just evicted an entry that never expires while an entry that
\* has expired stays in the cache
C35_Witness ==
    /\ ret.op = "Set"
    /\ \E x \in ret.keys : x # ret.key /\ stored[x].d = 0
    /\ \E y \in IndexedKeys(data) : IsExpired(EntryOf(data, lruList, y), now)

\* the five counters of a metrics record
Counters(m) == <<m.Hits, m.Misses, m.Sets, m.Deletes, m.Evictions>>

\* no counter of m2 is below the same counter of m1
NotBelow(m1, m2) == \A i \in 1..5 : Counters(m2)[i] >= Counters(m1)[i]

\* what Set and Get add to the counters when they are kept
CountsOneSetOrGet ==
    /\ IsCall("Set") => metrics'.Sets = metrics.Sets + 1
    /\ IsCall("Get") =>
          \/ metrics'.Hits = metrics.Hits + 1 /\ metrics'.Misses = metrics.Misses
          \/ metrics'.Hits = metrics.Hits /\ metrics'.Misses = metrics.Misses + 1

\* C34 as stated: outside Clear no operation decreases a counter, every Set
\* adds one to sets and every Get adds one to exactly one of hits and misses,
\* whatever the configuration.
C34_CountersAdvance ==
    [][~IsCall("Clear") => NotBelow(metrics, metrics') /\ CountsOneSetOrGet]_vars

\* C34: outside Clear no operation decreases a counter; with EnableMetrics
\* every Set adds one to sets and every Get adds one to exactly one of hits
\* and misses; without EnableMetrics no operation changes a counter.
C34_CountersAdvanceWhenEnabled ==
    [][~IsCall("Clear") =>
         /\ NotBelow(metrics, metrics')
         /\ config.EnableMetrics => CountsOneSetOrGet
         /\ ~config.EnableMetrics => Counters(metrics') = Counters(metrics)]_vars

\* two Sets of one key, a Get that hit and a Get that missed, all counted
C34_Witness ==
    /\ config.EnableMetrics
    /\ Cardinality(IndexedKeys(data)) = 1
    /\ metrics.Sets = 2 /\ metrics.Hits = 1 /\ metrics.Misses = 1

\* this step is the return of GetAllMetrics
IsGetAllMetrics ==
    \E t \in Callers : /\ mpc[t] = "locked" /\ mpc'[t] = "idle"
                        /\ mcall[t].op = "GetAllMetrics"

\* the snapshots this step returns carry the Size that size(_) gives
SnapshotsCarry(size(_)) ==
    /\ IsGetAllMetrics =>
          /\ mret'.names = GetCacheNamesResult(ManagerState)
          /\ \A n \in mret'.names : mret'.sizes[n] = size(engines[caches[n]])
    /\ IsMemoryCall("GetMetrics") => mret'.size = size(engines[mret'.handle.id])

\* the number of entries engine e holds, what Size() returns
EngineSize(e) == Cardinality(e.keys)

\* the number of entries of e when it keeps metrics, 0 when it does not
EngineSizeIfMetrics(e) == IF e.config.EnableMetrics THEN EngineSize(e) ELSE 0

\* C31 as stated: GetAllMetrics has one entry per registered name, and the
\* Size of every snapshot, from GetAllMetrics or from GetMetrics, is the
\* number of entries the engine holds, for every configuration.
C31_SnapshotSize == [][SnapshotsCarry(EngineSize)]_vars

\* C31: GetAllMetrics has one entry per registered name; the Size of a
\* snapshot is the number of entries the engine holds when the engine was
\* built with EnableMetrics, and 0 when it was built without.
C31_SnapshotSizeWhenEnabled == [][SnapshotsCarry(EngineSizeIfMetrics)]_vars

\* GetAllMetrics has just reported the size of an engine that holds an entry
C31_Witness ==
    /\ mret.op = "GetAllMetrics"
    /\ \E n \in mret.names :
          /\ mret.sizes[n] = 1
          /\ engines[caches[n]].keys # {}
          /\ engines[caches[n]].config.EnableMetrics

\* this step is a Set of key k that finds k indexed
IsUpdate(k) == IsCall("Set") /\ ret'.key = k /\ data[k] # Nil

\* what every update does: the value is the one given, the node of k is at
\* the front and the other nodes keep their order and their entries
UpdateRefreshes(k) ==
    /\ EntryOf(data', lruList', k).Value = ret'.value
    /\ Head(lruList').key = k
    /\ ListWithoutKey(lruList', k) = ListWithoutKey(lruList, k)
    /\ data' = data

\* C33 as stated: a Set on a key already present refreshes the value and
\* moves the entry to the front, and the CreatedAt of the entry is the one it
\* had before the update.
C33_UpdateKeepsCreatedAt ==
    [][\A k \in Keys :
         IsUpdate(k) =>
           /\ UpdateRefreshes(k)
           /\ EntryOf(data', lruList', k).CreatedAt
                 = EntryOf(data, lruList, k).CreatedAt]_vars

\* C33: a Set on a key already present refreshes the value and moves the
\* entry to the front; the entry is replaced by a new one, so its CreatedAt
\* and AccessAt are the time of the update and its AccessCount is 1.
C33_UpdateReplacesEntry ==
    [][\A k \in Keys :
         IsUpdate(k) =>
           /\ UpdateRefreshes(k)
           /\ EntryOf(data', lruList', k).CreatedAt = now
           /\ EntryOf(data', lruList', k).AccessAt = now
           /\ EntryOf(data', lruList', k).AccessCount = 1]_vars

\* a key was set twice, the second time after the clock advanced, and nothing
\* was removed in between: its entry carries the time of the second Set
C33_Witness ==
    /\ ret.op = "Set" /\ now > 0 /\ config.EnableMetrics
    /\ IndexedKeys(data) = {ret.key}
    /\ metrics.Sets = 2 /\ metrics.Deletes = 0 /\ metrics.Evictions = 0
    /\ EntryOf(data, lruList, ret.key).CreatedAt = now

\* C32: SetDefaultTTL(t) changes the default TTL and nothing else, and only
\* SetDefaultTTL changes it; a later Set with ttl = 0 gives its entry the
\* expiry now + t when t > 0 and none when t = 0; a Set with ttl > 0 gives
\* now + ttl whatever the default; no Set changes the expiry of another entry.
C32_DefaultTTLFrame ==
    /\ [][IsCall("SetDefaultTTL") =>
             /\ config' = [config EXCEPT !.DefaultTTL = ret'.value]
             /\ data' = data /\ lruList' = lruList /\ metrics' = metrics]_vars
    /\ [][~IsCall("SetDefaultTTL") => config' = config]_vars
    /\ [][\A k \in Keys :
             (IsCall("Set") /\ ret'.key = k) =>
               LET d == stored'[k].d
                   t == config.DefaultTTL
                   e == EntryOf(data', lruList', k)
               IN /\ (d = 0 /\ t > 0) => e.ExpiresAt = now + t
                  /\ (d = 0 /\ t = 0) => e.ExpiresAt = ZeroTime
                  /\ d > 0 => e.ExpiresAt = now + d
                  /\ \A x \in IndexedKeys(data') \ {k} :
                        EntryOf(data', lruList', x).ExpiresAt
                          = EntryOf(data, lruList, x).ExpiresAt]_vars

\* a key set with ttl = 0 before SetDefaultTTL(t), t > 0, has no expiry, and
\* a key set with ttl = 0 after it expires t after its Set
C32_Witness ==
    \E k, x \in Keys :
      /\ stored[k].live /\ stored[k].d = 0 /\ stored[k].dflt = 0
      /\ EntryOf(data, lruList, k).ExpiresAt = ZeroTime
      /\ stored[x].live /\ stored[x].d = 0 /\ stored[x].dflt > 0
      /\ EntryOf(data, lruList, x).ExpiresAt = stored[x].s + stored[x].dflt
      /\ config.DefaultTTL = stored[x].dflt

\* the last Set of key k had a negative ttl, or ttl = 0 under a default TTL
\* of zero or less, and no Delete, Clear or capacity eviction removed k since
Unexpiring(k) ==
    /\ stored[k].live
    /\ stored[k].d < 0 \/ (stored[k].d = 0 /\ stored[k].dflt <= 0)

\* C38: an entry stored by Set with a negative ttl, or with ttl = 0 under a
\* default TTL of zero or less, has no expiry time; until a Delete, a Clear
\* or a capacity eviction removes it, it is in the cache at every time, Get
\* and Has find it, and no sweep removes it.
C38_NoExpiry ==
    /\ [](\A k \in Keys :
            Unexpiring(k) => /\ data[k] # Nil
                             /\ EntryOf(data, lruList, k).ExpiresAt = ZeroTime
                             /\ HasResult(CacheState, k, now))
    /\ [][\A k \in Keys :
             (Unexpiring(k) /\ (IsCall("Get") \/ IsCall("Has")) /\ ret'.key = k)
               => ret'.found]_vars
    /\ [][\A k \in Keys :
             (Unexpiring(k) /\ data'[k] = Nil) =>
                \/ IsCall("Delete") /\ ret'.key = k
                \/ IsCall("Clear")
                \/ IsCall("Set") /\ ret'.key # k /\ k \in ret'.keys
                      /\ Cardinality(IndexedKeys(data)) = config.MaxSize]_vars

\* a sweep removed an expired entry and left an older entry that was set
\* with a negative ttl
C38_Witness ==
    /\ ret.op = "cleanupExpired" /\ ret.keys # {}
    /\ \E k \in Keys : Unexpiring(k) /\ stored[k].d < 0 /\ now > stored[k].s + MaxTTL

\* a Get found, after the clock advanced, an entry set with ttl = 0 while the
\* default TTL was negative
C38_WitnessDefault ==
    /\ ret.op = "Get" /\ ret.found
    /\ Unexpiring(ret.key) /\ stored[ret.key].d = 0 /\ stored[ret.key].dflt < 0
    /\ now > stored[ret.key].s

\* ---------------------------- two engines given the same sequence of calls
\* The first engine is data, lruList, metrics under config; the second is
\* twin.st under the same config with EnableMetrics the other way.
TwinConfig == [config EXCEPT !.EnableMetrics = ~@]

\* call c on an engine in state st under cfg at time t: the state it leaves
\* and what it returns
Apply(st, cfg, c, t) ==
    CASE c.op = "Get" ->
           LET r == GetResult(st, cfg, c.key, t)
           IN [st |-> r.st, ret |-> Ret("Get", c.key, r.found, r.value, 0, {}, NoSnap)]
      [] c.op = "Set" ->
           [st |-> SetResult(st, cfg, c.key, c.value, c.ttl, t),
            ret |-> Ret("Set", c.key, FALSE, c.value, 0, {}, NoSnap)]
      [] c.op = "Delete" ->
           [st |-> DeleteResult(st, cfg, c.key),
            ret |-> Ret("Delete", c.key, FALSE, Zero, 0, {}, NoSnap)]
      [] c.op = "Clear" ->
           [st |-> ClearResult(st, cfg, t),
            ret |-> Ret("Clear", NoKey, FALSE, Zero, 0, {}, NoSnap)]
      [] c.op = "cleanupExpired" ->
           [st |-> cleanupExpiredResult(st, cfg, t),
            ret |-> Ret("cleanupExpired", NoKey, FALSE, Zero, 0, {}, NoSnap)]
      [] c.op = "Has" ->
           [st |-> st,
            ret |-> Ret("Has", c.key, HasResult(st, c.key, t), Zero, 0, {}, NoSnap)]
      [] c.op = "Size" ->
           [st |-> st,
            ret |-> Ret("Size", NoKey, FALSE, Zero, Cardinality(IndexedKeys(st.data)),
                        {}, NoSnap)]
      [] c.op = "Keys" ->
           [st |-> st,
            ret |-> Ret("Keys", NoKey, FALSE, Zero, 0, IndexedKeys(st.data), NoSnap)]

TwinCalls ==
    {Call(op, k, Zero, 0) : op \in {"Get", "Delete", "Has"}, k \in Keys}
      \cup {Call("Set", k, 1, ttl) : k \in Keys, ttl \in TTLs}
      \cup {Call(op, NoKey, Zero, 0) : op \in {"Clear", "cleanupExpired", "Size", "Keys"}}

\* the caller makes call c on both engines at the same time
Both(c) ==
    /\ nops < MaxOps
    /\ Install(Apply(CacheState, config, c, now).st)
    /\ ret' = Apply(CacheState, config, c, now).ret
    /\ twin' = Apply(twin.st, TwinConfig, c, now)
    /\ nops' = nops + 1
    /\ UNCHANGED <<config, histVars, now, lockVars, managerVars, env, db, entries,
                   wret, inflight>>

NextTwin ==
    \/ \E c \in TwinCalls : Both(c)
    \/ Tick

SpecTwin == Init /\ [][NextTwin]_vars

\* the counters of the engine built with EnableMetrics false
CountersWhenDisabled ==
    Counters(IF config.EnableMetrics THEN twin.st.metrics ELSE metrics)

\* the counters of the engine built with EnableMetrics true
CountersWhenEnabled ==
    Counters(IF config.EnableMetrics THEN metrics ELSE twin.st.metrics)

\* C39: two engines that differ only in EnableMetrics and are given the same
\* calls at the same times hold the same index and the same recency list
\* (keys, values, expiry times, order) after every step and return the same
\* from Get, Has, Size and Keys; the counters of the engine without
\* EnableMetrics stay 0.
C39_MetricsFlagNoInfluence ==
    /\ twin.st.data = data
    /\ twin.st.lruList = lruList
    /\ twin.ret = ret
    /\ CountersWhenDisabled = <<0, 0, 0, 0, 0>>

\* a Get has just hit on both engines after a Set evicted an entry; the
\* engine with EnableMetrics counted three Sets, the eviction and the hit
C39_Witness ==
    /\ ret.op = "Get" /\ ret.found /\ twin.ret.found
    /\ CountersWhenEnabled = <<1, 0, 3, 0, 1>>

\* ------------------------------ a read of the service that overlaps writes
\* Nothing is locked between the store call of a read and its cache.Set, so
\* other calls of the service can run in between: the read is two steps.
CachedRead(op, arg) ==
    CASE op = "GetAllClipboards" -> GetAllClipboardsCached(entries, db, FALSE)
      [] op = "GetClipboardByID" -> GetClipboardByIDCached(entries, db, arg, FALSE)
      [] op = "GetClipboardByTitle" -> GetClipboardByTitleCached(entries, db, arg, FALSE)
      [] op = "GetClipboardContentByTitle" ->
           GetClipboardContentByTitleCached(entries, db, arg, FALSE)

\* the arguments the reads are called with
ReadArgs(op) ==
    CASE op = "GetAllClipboards" -> {All}
      [] op = "GetClipboardByID" -> Ids
      [] OTHER -> Titles

\* a read misses the cache and gets its record from the store
ReadFetch(op, arg) ==
    /\ nops < MaxRaceOps
    /\ inflight.stage # "fetched"
    /\ CachedRead(op, arg).err = NoErr
    /\ ~CachedRead(op, arg).hit
    /\ inflight' = [stage |-> "fetched", op |-> op, arg |-> arg,
                    key |-> ReadKey(op, arg), value |-> CachedRead(op, arg).value]
    /\ nops' = nops + 1
    /\ UNCHANGED <<coreVars, managerVars, env, db, entries, wret, twin>>

\* the read stores what it fetched under its key and returns it
ReadStore ==
    /\ inflight.stage = "fetched"
    /\ entries' = CacheSet(entries, inflight.key, inflight.value)
    /\ inflight' = [inflight EXCEPT !.stage = "stored"]
    /\ UNCHANGED <<coreVars, managerVars, env, nops, db, wret, twin>>

\* the writes are given the stored title and their store lookups succeed
NextRace ==
    \/ \E op \in ReadOps : \E arg \in ReadArgs(op) : ReadFetch(op, arg)
    \/ ReadStore
    \/ \E title \in Titles : nops < MaxRaceOps /\ ServiceCreate(title, title, FALSE)
    \/ \E id \in Ids, title \in Titles :
          nops < MaxRaceOps /\ ServiceUpdate(id, title, FALSE, FALSE)
    \/ \E id \in Ids :
          nops < MaxRaceOps /\ Exists(db, id)
            /\ ServiceDelete(id, db.rows[id].Title, FALSE)

SpecRace == InitClose /\ [][NextRace]_vars

\* C36: once a read of the service and an UpdateClipboard or DeleteClipboard
\* of the same entity that overlapped it have both returned, no key of the
\* entity holds a value from before the write.
C36_NoStaleRepopulation ==
    (/\ inflight.stage = "stored"
     /\ wret.op \in {"UpdateClipboard", "DeleteClipboard"} /\ wret.err = NoErr
     /\ inflight.key \in IndexKeys(wret.id, wret.oldTitle, wret.newTitle))
      => NothingPredatesWrite

\* ------------------------------------ shutdown among calls that take locks
\* Every engine has its lock mc.mu and its sweeper; a call that works on
\* engines visits them one by one: it picks one, waits for its lock, works,
\* unlocks.  GetAllMetrics visits while it holds the read lock of the
\* Manager; ClearCache and ClearAll have released it; a call through a
\* handle never took it.
EngineOps == {"Get", "Set", "Delete", "Clear", "GetMetrics"}

\* the calls that take mc.mu.RLock rather than mc.mu.Lock
EngineTakesRLock(op) == op \in {"GetMetrics", "GetAllMetrics"}

\* mutant: a sweep that also needs the lock of the Manager
SweeperNeedsManagerLock(e) == e.mu.w = NoThread /\ e.mu.r = {} /\ CanManagerLock

\* mc.mu.Lock() of cleanupExpired can return
SweeperCanLock(e) == e.mu.w = NoThread /\ e.mu.r = {}

EngineCanLock(e, op) ==
    IF EngineTakesRLock(op) THEN e.mu.w = NoThread
    ELSE e.mu.w = NoThread /\ e.mu.r = {}

EngineLocked(e, t, op) ==
    IF EngineTakesRLock(op) THEN [e EXCEPT !.mu.r = @ \cup {t}]
    ELSE [e EXCEPT !.mu.w = t]

EngineUnlocked(e, t) ==
    [e EXCEPT !.mu = [w |-> IF @.w = t THEN NoThread ELSE @.w, r |-> @.r \ {t}]]

\* what the call does to the engine while it holds the lock
EngineEffect(e, op) ==
    CASE op = "Set" -> MemorySet(e, 1)
      [] op = "Delete" -> [e EXCEPT !.keys = @ \ {1}]
      [] op \in {"Clear", "ClearCache", "ClearAll"} -> MemoryClear(e)
      [] op \in {"GetMetrics", "GetAllMetrics"} -> MemoryGetMetrics(e)
      [] OTHER -> e

\* thread t sets out to visit the engines in targets for call op
Visit(t, op, targets) ==
    /\ mpc' = [mpc EXCEPT ![t] = "visiting"]
    /\ mcall' = [mcall EXCEPT ![t] = ManagerCall(op, NoCache, "any")]
    /\ mlocal' = [mlocal EXCEPT ![t] = [NoManagerLocal EXCEPT !.pending = targets]]

\* a call on the engine thread t holds a handle of
EngineCallBegin(t, op) ==
    /\ mpc[t] = "idle"
    /\ handle[t].kind = "memory"
    /\ nops < MaxShutdownOps
    /\ nops' = nops + 1
    /\ Visit(t, op, {handle[t].id})
    /\ UNCHANGED <<engineVars, caches, configs, closed, managerMu, engines, handle,
                   mret, requested, returned, preset>>

\* m.ClearCache(name): the lookup under the read lock, which is released
ClearCacheBegin(t, name) ==
    /\ mpc[t] = "idle"
    /\ CanManagerRLock
    /\ nops < MaxShutdownOps
    /\ nops' = nops + 1
    /\ Visit(t, "ClearCache", ClearCacheTargets(ManagerState, name))
    /\ UNCHANGED <<engineVars, caches, configs, closed, managerMu, engines, handle,
                   mret, requested, returned, preset>>

\* m.ClearAll(): the caches are collected under the read lock, which is released
ClearAllBegin(t) ==
    /\ mpc[t] = "idle"
    /\ CanManagerRLock
    /\ nops < MaxShutdownOps
    /\ nops' = nops + 1
    /\ Visit(t, "ClearAll", ClearAllTargets(ManagerState))
    /\ UNCHANGED <<engineVars, caches, configs, closed, managerMu, engines, handle,
                   mret, requested, returned, preset>>

\* m.GetAllMetrics(): the loop over m.caches starts, the read lock is kept
MetricsBegin(t) ==
    /\ InManager(t, "GetAllMetrics")
    /\ mpc' = [mpc EXCEPT ![t] = "visiting"]
    /\ mlocal' = [mlocal EXCEPT ![t].pending =
                    { mlocal[t].caches[n] : n \in GetAllMetricsResult(ManagerView(t)) }]
    /\ UNCHANGED <<engineVars, nops, caches, configs, closed, managerMu, engines,
                   mcall, handle, mret, requested, returned, preset>>

\* the call turns to one of the engines left and asks for its lock
VisitNext(t) ==
    /\ mpc[t] = "visiting"
    /\ \E e \in mlocal[t].pending :
          mlocal' = [mlocal EXCEPT ![t].pending = @ \ {e}, ![t].current = e]
    /\ mpc' = [mpc EXCEPT ![t] = "engineWait"]
    /\ UNCHANGED <<engineVars, nops, caches, configs, closed, managerMu, engines,
                   mcall, handle, mret, requested, returned, preset>>

\* mc.mu.Lock() or mc.mu.RLock() returns
VisitLock(t) ==
    /\ mpc[t] = "engineWait"
    /\ EngineCanLock(engines[mlocal[t].current], mcall[t].op)
    /\ engines' = [engines EXCEPT ![mlocal[t].current] =
                     EngineLocked(@, t, mcall[t].op)]
    /\ mpc' = [mpc EXCEPT ![t] = "engineHeld"]
    /\ UNCHANGED <<engineVars, nops, caches, configs, closed, managerMu, mcall,
                   mlocal, handle, mret, requested, returned, preset>>

\* the call does its work on the engine and unlocks it
VisitUnlock(t) ==
    /\ mpc[t] = "engineHeld"
    /\ engines' = [engines EXCEPT ![mlocal[t].current] =
                     EngineUnlocked(EngineEffect(@, mcall[t].op), t)]
    /\ mlocal' = [mlocal EXCEPT ![t].current = NoCache]
    /\ mpc' = [mpc EXCEPT ![t] = "visiting"]
    /\ UNCHANGED <<engineVars, nops, caches, configs, closed, managerMu, mcall,
                   handle, mret, requested, returned, preset>>

\* no engine is left: the call returns, GetAllMetrics with its RUnlock
VisitDone(t) ==
    /\ mpc[t] = "visiting"
    /\ mlocal[t].pending = {}
    /\ mret' = MRet(mcall[t].op, NoCache, NoHandle, {}, closed)
    /\ ManagerReturn(t)
    /\ UNCHANGED <<caches, configs, closed, engines, handle, requested, returned,
                   preset>>

\* the sweeper of engine e takes case <-ticker.C and calls cleanupExpired
EngineTick(e) ==
    /\ e \in DOMAIN engines
    /\ engines[e].sweeper = "running"
    /\ engines' = [engines EXCEPT ![e].sweeper = "locking"]
    /\ UNCHANGED <<engineVars, nops, caches, configs, closed, managerMu, mpc, mcall,
                   mlocal, handle, mret, requested, returned, preset>>

\* cleanupExpired of engine e gets mc.mu
SweepLock(e) ==
    /\ e \in DOMAIN engines
    /\ engines[e].sweeper = "locking"
    /\ SweeperCanLock(engines[e])
    /\ engines' = [engines EXCEPT ![e].sweeper = "sweeping", ![e].mu.w = SweeperId]
    /\ UNCHANGED <<engineVars, nops, caches, configs, closed, managerMu, mpc, mcall,
                   mlocal, handle, mret, requested, returned, preset>>

\* cleanupExpired of engine e returns: the deferred Unlock, back to the select
SweepUnlock(e) ==
    /\ e \in DOMAIN engines
    /\ engines[e].sweeper = "sweeping"
    /\ engines' = [engines EXCEPT ![e].sweeper = "running", ![e].mu.w = NoThread]
    /\ UNCHANGED <<engineVars, nops, caches, configs, closed, managerMu, mpc, mcall,
                   mlocal, handle, mret, requested, returned, preset>>

ShutdownCalls ==
    {ManagerCall("GetOrCreateCache", n, "string") : n \in Names}
      \cup {ManagerCall("GetAllMetrics", NoCache, "any")}
      \cup {ManagerCall("Close", NoCache, "any")}

\* the engines there can be: one per name
ShutdownEngines == 1..NumNames

NextShutdown ==
    \/ \E t \in Callers, c \in ShutdownCalls :
          nops < MaxShutdownOps /\ ManagerAcquire(t, c)
    \/ \E t \in Callers : GetOrCreateCache(t)
    \/ \E t \in Callers : MetricsBegin(t)
    \/ \E t \in Callers, op \in EngineOps : EngineCallBegin(t, op)
    \/ \E t \in Callers, n \in Names : ClearCacheBegin(t, n)
    \/ \E t \in Callers : ClearAllBegin(t)
    \/ \E t \in Callers : VisitNext(t)
    \/ \E t \in Callers : VisitLock(t)
    \/ \E t \in Callers : VisitUnlock(t)
    \/ \E t \in Callers : VisitDone(t)
    \/ \E t \in Callers : ManagerCloseAgain(t)
    \/ \E t \in Callers : ManagerCloseStart(t)
    \/ \E t \in Callers : ManagerCloseEngine(t)
    \/ \E t \in Callers : ManagerCloseJoin(t)
    \/ \E t \in Callers : ManagerCloseFinish(t)
    \/ \E e \in ShutdownEngines : EngineTick(e)
    \/ \E e \in ShutdownEngines : SweepLock(e)
    \/ \E e \in ShutdownEngines : SweepUnlock(e)
    \/ \E e \in ShutdownEngines : EngineSweeperStop(e)

\* every step that is not the start of a call is taken once it can be; a
\* lock that is free again and again is obtained (sync.RWMutex hands it
\* over), and a sweeper at its select with the stop channel closed takes that
\* case (select picks among the ready cases at random)
ShutdownFairness ==
    /\ \A t \in Callers :
          /\ WF_vars(GetOrCreateCache(t))
          /\ WF_vars(MetricsBegin(t))
          /\ WF_vars(VisitNext(t))
          /\ SF_vars(VisitLock(t))
          /\ WF_vars(VisitUnlock(t))
          /\ WF_vars(VisitDone(t))
          /\ WF_vars(ManagerCloseAgain(t))
          /\ WF_vars(ManagerCloseStart(t))
          /\ WF_vars(ManagerCloseEngine(t))
          /\ WF_vars(ManagerCloseJoin(t))
          /\ WF_vars(ManagerCloseFinish(t))
    /\ \A e \in ShutdownEngines :
          /\ SF_vars(SweepLock(e))
          /\ WF_vars(SweepUnlock(e))
          /\ SF_vars(EngineSweeperStop(e))

SpecShutdown == InitClose /\ [][NextShutdown]_vars /\ ShutdownFairness

\* C37: every call of Manager.Close that has the lock of the Manager returns,
\* and so does every other call in progress, whatever sweeper passes, engine
\* calls and Manager calls run beside it: nothing waits for ever for the lock
\* of the Manager, for the lock of an engine or for a sweeper to exit.
C37_ShutdownTerminates ==
    \A t \in Callers : (mpc[t] # "idle") ~> (mpc[t] = "idle")

\* Close holds the lock of the Manager and waits for the sweeper of an
\* engine, which waits for the lock of its engine, which another call holds
C37_Witness ==
    \E t, u \in Callers :
      /\ mcall[t].op = "Close" /\ mpc[t] = "waiting"
      /\ engines[mlocal[t].current].sweeper = "locking"
      /\ mpc[u] = "engineHeld" /\ mlocal[u].current = mlocal[t].current

====
